---- MODULE Spec2Model ----
(***************************************************************************)
(* Model of marmot-web's group session orchestration and secure-messaging  *)
(* layer: the messages store (src/src/stores/messages.ts), the             *)
(* conversations store (src/src/stores/conversations.ts), the persisted    *)
(* state plugin (src/src/plugins/persistedState.ts), the MLS state storage *)
(* (src/src/services/mlsStorage.ts), the useMarmot composable              *)
(* (src/unnamed/part_007) and useGroupManagement                           *)
(* (src/src/composables/useGroupManagement.ts).                            *)
(*                                                                         *)
(* Every async function is split at its awaits: one action per segment     *)
(* that runs without yielding to the event loop.                           *)
(***************************************************************************)
EXTENDS Integers, Sequences, FiniteSets, TLC

VARIABLES
    messages,              \* messages store: conversationId -> ChatMessage[]
    conversations,         \* conversations store: id -> Conversation
    activeConversationId,  \* conversations store: the open conversation
    mlsStates,             \* runtime cache of ClientState per conversation
    mlsStateStore,         \* IndexedDB 'mls_state': id -> encoded state
    idbQueue,              \* IndexedDB 'mls_state': the requests not yet completed, in issue order
    mlsKeyPackageStore,    \* IndexedDB 'mls_key_packages': KeyPackage event id -> private data
    piniaStore,            \* IndexedDB 'pinia_state': store id -> saved state
    saveTimeout,           \* persisted-state plugin: store ids with a pending timer
    relayEvents,           \* events the relays accepted (transport)
    publishLog,            \* every event handed to publishEvent, in order
    sendOps,               \* sendMessage calls: op id -> call frame
    recvOps,               \* handleGroupEvent calls suspended at the decrypt await
    handled,               \* history: the (conversation, event) of every handleGroupEvent call that returned
    groupOps,              \* createGroup, handleWelcome and addMembers calls: op id -> call frame
    engineLog,             \* every engine call submitted
    now,                   \* the wall clock, Math.floor(Date.now() / 1000)
    clock,                 \* milliseconds since the page was loaded
    watched                \* persisted-state plugin: store id -> time of its last change and its armed timers

vars == <<messages, conversations, activeConversationId, mlsStates, mlsStateStore, idbQueue, mlsKeyPackageStore, piniaStore, saveTimeout, relayEvents, publishLog, sendOps, recvOps, handled, groupOps, engineLog, now, clock, watched>>

(***************************************************************************)
(* Bounds of the model.                                                    *)
(***************************************************************************)
MaxMsgs == 2

(***************************************************************************)
(* Values.                                                                 *)
(***************************************************************************)
ConvIds == {"c1", "c2"}

\* The id of the kind 443 event chosen for an identity.
KeyPackageEventId(pubkey) ==
    [src |-> "keyPackage", of |-> pubkey]

\* The private data saveKeyPackageData stores under a KeyPackage event id.
KeyPackageData(eventId) ==
    [tag |-> "keyPackageData", eventId |-> eventId]

\* A stored record that does not decode.
CorruptBytes == [tag |-> "corrupt"]

\* JS null, and the propagation of an exception out of a function.
Null == [tag |-> "null"]

Thrown == [tag |-> "thrown"]

Pubkeys == {"A", "B"}

Contents == {"hi", "yo"}

MsgIds == {"m1", "m2", "m3"}

Times == {100, 103, 130}

Statuses == {"sending", "sent", "failed"}

KindChat == 9

\* A JS object with one more (or one replaced) key: { ...obj, [key]: value }.
Put(obj, key, value) ==
    [k \in (DOMAIN obj) \cup {key} |-> IF k = key THEN value ELSE obj[k]]

\* A JS object without a key: const { [key]: _removed, ...rest } = obj.
Without(obj, key) ==
    [k \in (DOMAIN obj) \ {key} |-> obj[k]]

\* A plausible bug of the spread: { ...updates, ...m }.
MergeReversed(m, updates) ==
    [k \in (DOMAIN m) \cup (DOMAIN updates) |-> IF k \in DOMAIN m THEN m[k] ELSE updates[k]]

\* { ...m, ...updates } for a Partial<ChatMessage>.
Merge(m, updates) ==
    [k \in (DOMAIN m) \cup (DOMAIN updates) |-> IF k \in DOMAIN updates THEN updates[k] ELSE m[k]]

Abs(x) ==
    IF x < 0 THEN 0 - x ELSE x

(***************************************************************************)
(* Messages store.                                                         *)
(***************************************************************************)
\* messages.value[conversationId] ?? []
MsgsOf(msgs, conversationId) ==
    IF conversationId \in DOMAIN msgs THEN msgs[conversationId] ELSE <<>>

HasId(msgs, conversationId, id) ==
    \E i \in 1..Len(MsgsOf(msgs, conversationId)) : MsgsOf(msgs, conversationId)[i].id = id

\* A plausible bug of addMessage: the duplicate check is left out.
addMessageNoDedup(msgs, msg) ==
    Put(msgs, msg.conversationId, Append(MsgsOf(msgs, msg.conversationId), msg))

\* A plausible bug of addMessage: a conversation without a list yet is skipped.
addMessageNeedsList(msgs, msg) ==
    IF msg.conversationId \notin DOMAIN msgs \/ HasId(msgs, msg.conversationId, msg.id)
    THEN msgs
    ELSE Put(msgs, msg.conversationId, Append(MsgsOf(msgs, msg.conversationId), msg))

addMessage(msgs, msg) ==
    IF HasId(msgs, msg.conversationId, msg.id)
    THEN msgs
    ELSE Put(msgs, msg.conversationId, Append(MsgsOf(msgs, msg.conversationId), msg))

updateMessage(msgs, conversationId, messageId, updates) ==
    IF conversationId \notin DOMAIN msgs
    THEN msgs
    ELSE Put(msgs, conversationId,
             [i \in 1..Len(msgs[conversationId]) |->
                 IF msgs[conversationId][i].id = messageId
                 THEN Merge(msgs[conversationId][i], updates)
                 ELSE msgs[conversationId][i]])

removeMessage(msgs, conversationId, messageId) ==
    IF conversationId \notin DOMAIN msgs
    THEN msgs
    ELSE Put(msgs, conversationId,
             SelectSeq(msgs[conversationId], LAMBDA m : m.id # messageId))

clearMessages(msgs, conversationId) ==
    Without(msgs, conversationId)

\* Array.prototype.sort with (a, b) => a.createdAt - b.createdAt: stable.
RECURSIVE SortByCreatedAt(_)
SortByCreatedAt(s) ==
    IF Len(s) <= 1
    THEN s
    ELSE LET rest == SortByCreatedAt(Tail(s))
             before == SelectSeq(rest, LAMBDA m : m.createdAt < Head(s).createdAt)
             after == SelectSeq(rest, LAMBDA m : m.createdAt >= Head(s).createdAt)
         IN before \o <<Head(s)>> \o after

getMessages(msgs, conversationId) ==
    SortByCreatedAt(MsgsOf(msgs, conversationId))

TotalMessages(msgs) ==
    LET RECURSIVE Sum(_)
        Sum(S) == IF S = {} THEN 0
                  ELSE LET c == CHOOSE x \in S : TRUE
                       IN Len(msgs[c]) + Sum(S \ {c})
    IN Sum(DOMAIN msgs)

\* The messages a caller may hand to the store. Own messages (sender A) take every
\* status; messages of others reach the store from handleGroupEvent, with status
\* sent.
StoreMsgs ==
    [id : MsgIds, conversationId : {"c1"}, senderPubkey : {"A"}, content : Contents,
     kind : {KindChat}, createdAt : Times, status : Statuses]
    \cup [id : MsgIds, conversationId : {"c1"}, senderPubkey : {"B"}, content : {"hi"},
          kind : {KindChat}, createdAt : Times, status : {"sent"}]
    \cup [id : MsgIds, conversationId : {"c2"}, senderPubkey : {"A"}, content : {"hi"},
          kind : {KindChat}, createdAt : {100}, status : {"sent"}]

\* Partial<ChatMessage> values handed to updateMessage.
StoreUpdates ==
    [status : Statuses] \cup [id : MsgIds, status : {"sent"}]

NoObject == [k \in {} |-> 0]

Idle ==
    /\ conversations = NoObject
    /\ activeConversationId = "null"
    /\ mlsStates = NoObject
    /\ mlsStateStore = NoObject
    /\ idbQueue = <<>>
    /\ mlsKeyPackageStore = NoObject
    /\ piniaStore = NoObject
    /\ saveTimeout = {}
    /\ relayEvents = {}
    /\ publishLog = <<>>
    /\ sendOps = NoObject
    /\ recvOps = {}
    /\ handled = {}
    /\ groupOps = NoObject
    /\ engineLog = {}
    /\ now = 100
    /\ clock = 0
    /\ watched = NoObject

StoreInit ==
    /\ messages = NoObject
    /\ Idle

StoreFrame ==
    UNCHANGED <<conversations, activeConversationId, mlsStates, mlsStateStore, idbQueue, mlsKeyPackageStore, piniaStore, saveTimeout, relayEvents, publishLog, sendOps, recvOps, handled, groupOps, engineLog, now, clock, watched>>

AddMessage(msg) ==
    /\ TotalMessages(addMessage(messages, msg)) <= MaxMsgs
    /\ messages' = addMessage(messages, msg)
    /\ StoreFrame

UpdateMessage(conversationId, messageId, updates) ==
    /\ messages' = updateMessage(messages, conversationId, messageId, updates)
    /\ StoreFrame

RemoveMessage(conversationId, messageId) ==
    /\ messages' = removeMessage(messages, conversationId, messageId)
    /\ StoreFrame

ClearMessages(conversationId) ==
    /\ messages' = clearMessages(messages, conversationId)
    /\ StoreFrame

AddNext ==
    \/ \E msg \in StoreMsgs : AddMessage(msg)
    \/ \E c \in ConvIds, id \in MsgIds : RemoveMessage(c, id)
    \/ \E c \in ConvIds : ClearMessages(c)

\* The messages store driven by addMessage, removeMessage and clearMessages.
SpecAdd == StoreInit /\ [][AddNext]_vars

StoreNext ==
    \/ AddNext
    \/ \E c \in ConvIds, id \in MsgIds, u \in StoreUpdates : UpdateMessage(c, id, u)

\* The messages store driven by all of its mutators.
SpecStore == StoreInit /\ [][StoreNext]_vars

(***************************************************************************)
(* Engine values (marmot-ts/mls), as far as the orchestrator consumes them. *)
(***************************************************************************)
\* An optional field that is not set.
Undefined == [tag |-> "undefined"]

\* A ClientState: the group, its epoch, its members and the call that made it.
Handle(groupId, epoch, members, by) ==
    [tag |-> "clientState", groupId |-> groupId, epoch |-> epoch, members |-> members, by |-> by]

\* The exporter secret is a function of the state it is derived from.
deriveExporterSecret(state) ==
    [tag |-> "exporterSecret", of |-> state]

\* The TLS-encoded GroupState bytes of a state.
encodeState(state) ==
    [tag |-> "encodedState", of |-> state]

(***************************************************************************)
(* Conversations store.                                                    *)
(***************************************************************************)
Me == "A"

Conversation(id, members, exporterSecret) ==
    [id |-> id, members |-> members, exporterSecret |-> exporterSecret, hasMlsSession |-> TRUE,
     unreadCount |-> 0, lastMessage |-> Undefined, updatedAt |-> 100]

upsertConversation(convs, conversation) ==
    Put(convs, conversation.id, conversation)

\* A plausible bug of updateLastMessage: the active conversation counts as well.
updateLastMessageAlwaysCounts(convs, active, conversationId, preview) ==
    IF conversationId \notin DOMAIN convs
    THEN convs
    ELSE Put(convs, conversationId,
             [convs[conversationId] EXCEPT
                 !.lastMessage = preview,
                 !.updatedAt = preview.timestamp,
                 !.unreadCount = @ + 1])

updateLastMessage(convs, active, conversationId, preview) ==
    IF conversationId \notin DOMAIN convs
    THEN convs
    ELSE Put(convs, conversationId,
             [convs[conversationId] EXCEPT
                 !.lastMessage = preview,
                 !.updatedAt = preview.timestamp,
                 !.unreadCount = IF active # conversationId THEN @ + 1 ELSE @])

\* A plausible bug of updateMembers: the new list is not stored.
updateMembersDropped(convs, conversationId, members) ==
    convs

updateMembers(convs, conversationId, members) ==
    IF conversationId \notin DOMAIN convs
    THEN convs
    ELSE Put(convs, conversationId, [convs[conversationId] EXCEPT !.members = members])

\* !conversation?.exporterSecret
HasSecret(convs, conversationId) ==
    /\ conversationId \in DOMAIN convs
    /\ convs[conversationId].exporterSecret # Undefined

(***************************************************************************)
(* Group events (kind 445) and the NIP-44 layer keyed by the exporter      *)
(* secret.                                                                 *)
(***************************************************************************)
KindGroupEvent == 445

Placeholder == "[Encrypted message - cannot decrypt]"

\* serializeApplicationMessage(createApplicationMessage(pubkey, content))
serializeApplicationMessage(pubkey, content) ==
    [json |-> TRUE, pubkey |-> pubkey, content |-> content]

\* encryptGroupContent under the keypair derived from the exporter secret.
encryptGroupContent(msgJson, exporterSecret) ==
    [key |-> exporterSecret, payload |-> msgJson]

\* A plausible bug of the NIP-44 layer: the payload opens under any key.
DecryptOkAnyKey(encryptedContent, exporterSecret) ==
    encryptedContent.payload.json

\* decryptGroupContent followed by deserializeApplicationMessage: the NIP-44
\* layer authenticates under the derived key, so another key throws; a payload
\* that is no application message throws in the deserializer.
DecryptOk(encryptedContent, exporterSecret) ==
    /\ encryptedContent.key = exporterSecret
    /\ encryptedContent.payload.json

\* createGroupEvent: a kind 445 event signed by a fresh ephemeral key.
createGroupEvent(id, ephemeralPubkey, createdAt, nostrGroupId, encryptedContent) ==
    [id |-> id, pubkey |-> ephemeralPubkey, created_at |-> createdAt, kind |-> KindGroupEvent,
     h |-> nostrGroupId, content |-> encryptedContent, wellFormed |-> TRUE]

\* parseGroupEvent throws on an event that is no group event.
ParseOk(event) ==
    event.wellFormed

\* A plausible bug of the no-secret branch: the envelope's payload is shown.
NoSecretRecordCleartext(event) ==
    [content |-> event.content.payload.content, senderPubkey |-> event.content.payload.pubkey]

\* handleGroupEvent, no exporter secret: placeholder, ephemeral sender.
NoSecretRecord(event) ==
    [content |-> Placeholder, senderPubkey |-> event.pubkey]

\* A plausible bug of the decrypt branch: a failed decrypt falls back to the payload.
DecryptedRecordFallback(event, exporterSecret) ==
    [content |-> event.content.payload.content, senderPubkey |-> event.content.payload.pubkey]

\* handleGroupEvent, exporter secret present: the decrypted inner message, or the
\* placeholder when decryptGroupContent or deserializeApplicationMessage throws.
DecryptedRecord(event, exporterSecret) ==
    IF DecryptOk(event.content, exporterSecret)
    THEN [content |-> event.content.payload.content, senderPubkey |-> event.content.payload.pubkey]
    ELSE [content |-> Placeholder, senderPubkey |-> event.pubkey]

\* The ChatMessage handleGroupEvent hands to the store.
IncomingMessage(conversationId, event, rec) ==
    [id |-> event.id, conversationId |-> conversationId, senderPubkey |-> rec.senderPubkey,
     content |-> rec.content, kind |-> KindChat, createdAt |-> event.created_at, status |-> "sent"]

(***************************************************************************)
(* Persisted-state plugin (IndexedDB 'pinia_state').                       *)
(***************************************************************************)
PersistedStores == {"conversations", "messages"}

SensitiveKeys == {"exporterSecret", "mlsGroupState"}

\* The optional keys of a Conversation.
OptionalKeys == {"exporterSecret", "lastMessage"}

IsSet(obj, key) ==
    key \notin OptionalKeys \/ obj[key] # Undefined

\* A plausible bug of the replacer: nothing is stripped.
JsonReplacedKeepAll(obj) ==
    [k \in {x \in DOMAIN obj : IsSet(obj, x)} |-> obj[k]]

\* JSON.parse(JSON.stringify(obj, replacer)): the replacer drops the sensitive
\* keys, and JSON drops the keys whose value is undefined.
JsonReplaced(obj) ==
    [k \in {x \in (DOMAIN obj) \ SensitiveKeys : IsSet(obj, x)} |-> obj[k]]

serializeState(storeId, convs, active, msgs) ==
    IF storeId = "conversations"
    THEN [conversations |-> [c \in DOMAIN convs |-> JsonReplaced(convs[c])],
          activeConversationId |-> active]
    ELSE [messages |-> msgs]

ConversationKeys == {"id", "members", "exporterSecret", "hasMlsSession", "unreadCount", "lastMessage", "updatedAt"}

\* store.$patch(restored): a key the saved object lacks stays undefined.
restoreConversation(saved) ==
    [k \in ConversationKeys |-> IF k \in DOMAIN saved THEN saved[k] ELSE Undefined]

\* The watcher of a persisted store (re)arms its 300 ms timer on every change.
Touch(storeIds) ==
    saveTimeout' = saveTimeout \cup storeIds

(***************************************************************************)
(* useMarmot: sendMessage and handleGroupEvent.                            *)
(***************************************************************************)
MaxSends == 1

MaxRecv == 1

MaxUnread == 2

\* The group c1 at its current epoch, and at the epoch before the last add.
StaleState == Handle("c1", 0, {"A"}, 0)

CurrentState == Handle("c1", 1, {"A", "B"}, 0)

OtherState == Handle("c2", 1, {"A", "B"}, 0)

PendingId(op) == [src |-> "randomHex", n |-> op]

EventId(op) == [src |-> "event", n |-> op]

RemoteId(n) == [src |-> "remote", n |-> n]

EphemeralKey(n) == "ephemeral" \o ToString(n)

\* Group events of other members and of the network, next to the echoes of the
\* own sends: a message of B under the current secret of c1, one under the secret
\* of a stale epoch, one addressed
\* to c2, and an event parseGroupEvent rejects.
RemoteEvents ==
    { createGroupEvent(RemoteId(1), EphemeralKey(11), 99, "c1",
          encryptGroupContent(serializeApplicationMessage("B", "yo"), deriveExporterSecret(CurrentState))),
      createGroupEvent(RemoteId(2), EphemeralKey(12), 100, "c1",
          encryptGroupContent(serializeApplicationMessage("B", "old"), deriveExporterSecret(StaleState))),
      createGroupEvent(RemoteId(3), EphemeralKey(13), 100, "c2",
          encryptGroupContent(serializeApplicationMessage("B", "yo"), deriveExporterSecret(OtherState))),
      [createGroupEvent(RemoteId(4), EphemeralKey(14), 100, "c1",
          encryptGroupContent(serializeApplicationMessage("B", "yo"), deriveExporterSecret(CurrentState)))
          EXCEPT !.wellFormed = FALSE] }

\* c1 was created or joined in this session; c2 was restored from the persisted
\* store after a reload (its secret stripped, its state not yet loaded), or was
\* left (removed) while its subscription stays open.
ChatInit ==
    /\ messages = NoObject
    /\ \E c2 \in BOOLEAN :
        conversations =
            IF c2
            THEN [c \in {"c1", "c2"} |->
                    IF c = "c1"
                    THEN Conversation("c1", <<"A", "B">>, deriveExporterSecret(CurrentState))
                    ELSE restoreConversation(JsonReplaced(
                             Conversation("c2", <<"A", "B">>, deriveExporterSecret(OtherState))))]
            ELSE [c \in {"c1"} |-> Conversation("c1", <<"A", "B">>, deriveExporterSecret(CurrentState))]
    /\ activeConversationId = "null"
    /\ mlsStates = [c \in {"c1"} |-> CurrentState]
    /\ mlsStateStore = [c \in DOMAIN conversations |-> encodeState(IF c = "c1" THEN CurrentState ELSE OtherState)]
    /\ idbQueue = <<>>
    /\ mlsKeyPackageStore = [id \in {KeyPackageEventId(Me)} |-> KeyPackageData(id)]
    /\ piniaStore = [s \in {"conversations"} |-> serializeState(s, conversations, activeConversationId, messages)]
    /\ saveTimeout = {}
    /\ relayEvents = {}
    /\ publishLog = <<>>
    /\ sendOps = NoObject
    /\ recvOps = {}
    /\ handled = {}
    /\ groupOps = NoObject
    /\ engineLog = {}
    /\ now = 100
    /\ clock = 0
    /\ watched = NoObject

ChatFrame ==
    UNCHANGED <<activeConversationId, mlsStates, mlsStateStore, idbQueue, mlsKeyPackageStore, piniaStore, groupOps, engineLog, clock, watched>>

\* if (!conversation.exporterSecret) throw
CanEncryptAlways(conversationId) ==
    TRUE

CanEncrypt(conversationId) ==
    conversations[conversationId].exporterSecret # Undefined

\* A plausible bug of sendMessage: the secret the conversation had when the
\* page was loaded is used.
exporterSecretAtLoad(convs, conversationId) ==
    deriveExporterSecret(CurrentState)

\* The secret sendMessage hands to deriveEncryptionKeypair and encryptGroupContent:
\* the one of the conversation record read at the start of the call.
exporterSecretOf(convs, conversationId) ==
    convs[conversationId].exporterSecret

\* sendMessage up to its first await (or its synchronous throw).
SendStart(conversationId, content) ==
    LET op == Cardinality(DOMAIN sendOps) + 1
        chatMessage == [id |-> PendingId(op), conversationId |-> conversationId,
                        senderPubkey |-> Me, content |-> content, kind |-> KindChat,
                        createdAt |-> now, status |-> "sending"]
        frame == [pc |-> "encrypt", conversationId |-> conversationId, content |-> content,
                  pendingId |-> PendingId(op), createdAt |-> now,
                  secret |-> Undefined, event |-> Undefined, outcome |-> "none", error |-> "none"]
    IN
    /\ op <= MaxSends
    /\ IF conversationId \notin DOMAIN conversations
       THEN /\ sendOps' = Put(sendOps, op, [frame EXCEPT !.pc = "thrown", !.error = "Conversation not found"])
            /\ UNCHANGED <<messages, saveTimeout>>
       ELSE IF ~CanEncrypt(conversationId)
       THEN /\ messages' = updateMessage(addMessage(messages, chatMessage), conversationId,
                                         PendingId(op), [status |-> "failed"])
            /\ sendOps' = Put(sendOps, op, [frame EXCEPT !.pc = "thrown", !.error = "no MLS exporter secret"])
            /\ Touch({"messages"})
       ELSE /\ messages' = addMessage(messages, chatMessage)
            /\ sendOps' = Put(sendOps, op, [frame EXCEPT !.secret = exporterSecretOf(conversations, conversationId)])
            /\ Touch({"messages"})
    /\ UNCHANGED <<conversations, relayEvents, publishLog, recvOps, handled, now>>
    /\ ChatFrame

\* encryptGroupContent or createGroupEvent rejects: the catch marks the message failed.
SendEncryptFails(op) ==
    /\ op \in DOMAIN sendOps
    /\ sendOps[op].pc = "encrypt"
    /\ messages' = updateMessage(messages, sendOps[op].conversationId, sendOps[op].pendingId,
                                 [status |-> "failed"])
    /\ sendOps' = Put(sendOps, op, [sendOps[op] EXCEPT !.pc = "thrown", !.error = "encrypt failed"])
    /\ Touch({"messages"})
    /\ UNCHANGED <<conversations, relayEvents, publishLog, recvOps, handled, now>>
    /\ ChatFrame

\* The awaits of encryptGroupContent and createGroupEvent resolve and publishEvent
\* hands the event to the pool. The relays store it and acknowledge ("acked"),
\* reject it ("rejected"), or store it while the acknowledgement is lost ("lost").
SendPublish(op, outcome) ==
    LET f == sendOps[op]
        event == createGroupEvent(EventId(op), EphemeralKey(op), now, f.conversationId,
                     encryptGroupContent(serializeApplicationMessage(Me, f.content), f.secret))
    IN
    /\ op \in DOMAIN sendOps
    /\ f.pc = "encrypt"
    /\ publishLog' = Append(publishLog, event)
    /\ relayEvents' = IF outcome \in {"acked", "lost"} THEN relayEvents \cup {event} ELSE relayEvents
    /\ sendOps' = Put(sendOps, op, [f EXCEPT !.pc = "publish", !.event = event, !.outcome = outcome])
    /\ UNCHANGED <<messages, conversations, saveTimeout, recvOps, handled, now>>
    /\ ChatFrame

\* publishEvent settles: the message becomes sent under the event's id, or failed.
SendReturn(op) ==
    LET f == sendOps[op]
    IN
    /\ op \in DOMAIN sendOps
    /\ f.pc = "publish"
    /\ IF f.outcome = "acked"
       THEN /\ messages' = updateMessage(messages, f.conversationId, f.pendingId,
                                         [id |-> f.event.id, status |-> "sent"])
            /\ conversations' = updateLastMessage(conversations, activeConversationId, f.conversationId,
                                    [content |-> f.content, senderPubkey |-> Me, timestamp |-> f.createdAt])
            /\ sendOps' = Put(sendOps, op, [f EXCEPT !.pc = "done"])
            /\ Touch({"messages", "conversations"})
       ELSE /\ messages' = updateMessage(messages, f.conversationId, f.pendingId, [status |-> "failed"])
            /\ sendOps' = Put(sendOps, op, [f EXCEPT !.pc = "thrown", !.error = "rejected by all relays"])
            /\ Touch({"messages"})
            /\ UNCHANGED conversations
    /\ UNCHANGED <<relayEvents, publishLog, recvOps, handled, now>>
    /\ ChatFrame

\* The store writes at the end of handleGroupEvent.
StoreIncoming(conversationId, event, rec) ==
    /\ messages' = addMessage(messages, IncomingMessage(conversationId, event, rec))
    /\ conversations' = updateLastMessage(conversations, activeConversationId, conversationId,
                            [content |-> rec.content, senderPubkey |-> rec.senderPubkey,
                             timestamp |-> event.created_at])
    /\ Touch({"messages", "conversations"})

\* The events a subscription of the group can deliver, any number of times.
Deliverable(conversationId) ==
    {e \in relayEvents \cup RemoteEvents : e.h = conversationId}

\* handleGroupEvent up to its first await: an event parseGroupEvent rejects is
\* swallowed by the outer catch; without an exporter secret the placeholder is
\* stored at once; otherwise the call suspends in decryptGroupContent.
HandleGroupEvent(conversationId, event) ==
    /\ event \in Deliverable(conversationId)
    /\ Cardinality(recvOps) < MaxRecv
    /\ conversationId \in DOMAIN conversations => conversations[conversationId].unreadCount < MaxUnread
    /\ IF ~ParseOk(event)
       THEN /\ handled' = handled \cup {[conversationId |-> conversationId, event |-> event]}
            /\ UNCHANGED <<messages, conversations, saveTimeout, recvOps>>
       ELSE IF ~HasSecret(conversations, conversationId)
       THEN /\ StoreIncoming(conversationId, event, NoSecretRecord(event))
            /\ handled' = handled \cup {[conversationId |-> conversationId, event |-> event]}
            /\ UNCHANGED recvOps
       ELSE /\ recvOps' = recvOps \cup
                    {[conversationId |-> conversationId, event |-> event,
                      rec |-> DecryptedRecord(event, conversations[conversationId].exporterSecret)]}
            /\ UNCHANGED <<messages, conversations, saveTimeout, handled>>
    /\ UNCHANGED <<relayEvents, publishLog, sendOps, now>>
    /\ ChatFrame

\* handleGroupEvent after the decrypt await (resolved or caught).
HandleGroupEventResume(r) ==
    /\ r \in recvOps
    /\ recvOps' = recvOps \ {r}
    /\ StoreIncoming(r.conversationId, r.event, r.rec)
    /\ handled' = handled \cup {[conversationId |-> r.conversationId, event |-> r.event]}
    /\ UNCHANGED <<relayEvents, publishLog, sendOps, now>>
    /\ ChatFrame

ChatNext ==
    \/ \E c \in ConvIds : SendStart(c, "hi")
    \/ \E op \in 1..MaxSends : SendEncryptFails(op)
    \/ \E op \in 1..MaxSends, outcome \in {"acked", "rejected", "lost"} : SendPublish(op, outcome)
    \/ \E op \in 1..MaxSends : SendReturn(op)
    \/ \E c \in ConvIds : \E e \in Deliverable(c) : HandleGroupEvent(c, e)
    \/ \E r \in recvOps : HandleGroupEventResume(r)

\* Sending and receiving group messages.
SpecChat == ChatInit /\ [][ChatNext]_vars

(***************************************************************************)
(* useMarmot.createGroup and handleWelcome, useGroupManagement.addMembers, *)
(* the MLS state management of the conversations store, and the debounced  *)
(* save of the persisted-state plugin.                                     *)
(***************************************************************************)
MaxCalls == 2

\* memberPubkeys of a createGroup call and of an addMembers call.
CreateLists == {<<>>, <<"B">>}

MemberLists == {<<"C">>, <<"D">>}

Invitees == {"C", "D", "E"}

CreateInvitees == {"B", "C"}

\* memberPubkeys of the calls followed one at a time.
BatchCreateLists == {<<"B", "C">>}

BatchMemberLists == {<<"C", "D", "E">>}

SeqToSet(s) ==
    {s[i] : i \in 1..Len(s)}

\* Array.prototype.filter
\* A filter that keeps nothing.
KeepNone(s, set) ==
    <<>>

Keep(s, set) ==
    LET Test(p) == p \in set
    IN SelectSeq(s, Test)

\* decodeMlsState followed by groupStateToClientState
decodeMlsState(encoded) ==
    encoded.of

\* decodeMlsState and parseKeyPackageBytes throw on bytes that are none of theirs.
Decodes(stored, tag) ==
    stored.tag = tag

\* A plausible bug of loadMlsState: the decode is outside the try.
loadMlsStateNoCatch(store, conversationId) ==
    IF conversationId \notin DOMAIN store THEN Null
    ELSE IF Decodes(store[conversationId], "encodedState") THEN decodeMlsState(store[conversationId])
    ELSE Thrown

\* loadMlsState: null for an absent record; the decode runs in a try whose catch
\* logs and returns null.
loadMlsState(store, conversationId) ==
    IF conversationId \notin DOMAIN store THEN Null
    ELSE IF Decodes(store[conversationId], "encodedState") THEN decodeMlsState(store[conversationId])
    ELSE Null

\* loadKeyPackageData: null for an absent record; the parse runs in a try whose
\* catch logs and returns null.
loadKeyPackageData(store, eventId) ==
    IF eventId \notin DOMAIN store THEN Null
    ELSE IF Decodes(store[eventId], "keyPackageData") THEN store[eventId]
    ELSE Null

\* The locals of a call at its start.
Frame(fn, pc, conversationId, memberPubkeys) ==
    [fn |-> fn, pc |-> pc, conversationId |-> conversationId, memberPubkeys |-> memberPubkeys,
     members |-> <<>>, mlsState |-> Undefined, newState |-> Undefined, resolved |-> {},
     added |-> <<>>, failed |-> <<>>, error |-> "none"]

NextOp ==
    Cardinality(DOMAIN groupOps) + 1

InFlight(op) ==
    groupOps[op].pc \notin {"done", "thrown"}

\* The model follows MaxCalls calls.
MayStart ==
    Cardinality(DOMAIN groupOps) < MaxCalls

At(op, fn, pc) ==
    /\ op \in DOMAIN groupOps
    /\ groupOps[op].fn = fn
    /\ groupOps[op].pc = pc

\* The conversation update of setMlsState and of getMlsState.
withMlsMetadata(convs, conversationId, exporterSecret) ==
    IF conversationId \in DOMAIN convs
    THEN Put(convs, conversationId,
             [convs[conversationId] EXCEPT !.exporterSecret = exporterSecret, !.hasMlsSession = TRUE])
    ELSE convs

\* A request of call `op` on the object store 'mls_state'.
Request(op, kind, key, value) ==
    [op |-> op, kind |-> kind, key |-> key, value |-> value]

\* Transactions on one object store run in the order they were created: a write
\* (setItem, removeItem) completes when it is the oldest request, a getItem when no
\* write is older.
IdbReady(op) ==
    \E i \in 1..Len(idbQueue) :
        /\ idbQueue[i].op = op
        /\ idbQueue[i].kind # "getItem" => i = 1
        /\ \A j \in 1..(i - 1) : idbQueue[j].kind = "getItem"

\* A request that is taken off the queue without its write reaching the store.
IdbCompleteLosesWrite(op) ==
    LET Others(r) == r.op # op
    IN /\ mlsStateStore' = mlsStateStore
       /\ idbQueue' = SelectSeq(idbQueue, Others)

\* The object store after the request of `op` completed.
IdbComplete(op) ==
    LET q == CHOOSE r \in SeqToSet(idbQueue) : r.op = op
        Others(r) == r.op # op
    IN /\ mlsStateStore' = IF q.kind = "setItem" THEN Put(mlsStateStore, q.key, q.value)
                          ELSE IF q.kind = "removeItem" THEN Without(mlsStateStore, q.key)
                          ELSE mlsStateStore
       /\ idbQueue' = SelectSeq(idbQueue, Others)

\* The request of `op` fails: it leaves the queue and the store is not written.
IdbReject(op) ==
    LET Others(r) == r.op # op
    IN /\ mlsStateStore' = mlsStateStore
       /\ idbQueue' = SelectSeq(idbQueue, Others)

\* setMlsState up to its await: the cache entry, the conversation's MLS metadata,
\* and the setItem request of saveMlsState.
setMlsState(op, convs, conversationId, state) ==
    /\ mlsStates' = Put(mlsStates, conversationId, state)
    /\ conversations' = withMlsMetadata(convs, conversationId, deriveExporterSecret(state))
    /\ idbQueue' = Append(idbQueue, Request(op, "setItem", conversationId, encodeState(state)))
    /\ Touch(IF conversationId \in DOMAIN convs THEN {"conversations"} ELSE {})

KindGiftWrap == 1059

\* giftWrapWelcome(signer, pubkey, createWelcomeRumor(..., keyPackageEventId, ...))
\* for the membership change of call `op`.
giftWrapWelcome(op, conversationId, pubkey) ==
    [kind |-> KindGiftWrap, op |-> op, h |-> conversationId, to |-> pubkey,
     keyPackageEventId |-> KeyPackageEventId(pubkey)]

\* The gift wraps the Welcome loop hands to publishEvent, in order.
\* A Welcome loop that gives up after its first recipient.
WelcomesFirstOnly(op, conversationId, recipients) ==
    IF recipients = <<>> THEN <<>> ELSE <<giftWrapWelcome(op, conversationId, recipients[1])>>

Welcomes(op, conversationId, recipients) ==
    [i \in 1..Len(recipients) |-> giftWrapWelcome(op, conversationId, recipients[i])]

GroupFrame ==
    UNCHANGED <<messages, activeConversationId, mlsKeyPackageStore, relayEvents, sendOps, recvOps, handled, now, clock, watched>>

\* c1 was created in this session, or restored after a reload: its secret is
\* stripped and the cache is empty, with or without its state in 'mls_state'.
GroupInit ==
    /\ messages = NoObject
    /\ \E start \in {"session", "reloaded", "reloadedNoState"} :
        /\ conversations =
            [c \in {"c1"} |->
                IF start = "session"
                THEN Conversation("c1", <<"A", "B">>, deriveExporterSecret(CurrentState))
                ELSE restoreConversation(JsonReplaced(
                         Conversation("c1", <<"A", "B">>, deriveExporterSecret(CurrentState))))]
        /\ mlsStates = IF start = "session" THEN [c \in {"c1"} |-> CurrentState] ELSE NoObject
        /\ mlsStateStore = IF start = "reloadedNoState" THEN NoObject ELSE [c \in {"c1"} |-> encodeState(CurrentState)]
    /\ idbQueue = <<>>
    /\ mlsKeyPackageStore = [id \in {KeyPackageEventId(Me)} |-> KeyPackageData(id)]
    /\ activeConversationId = "null"
    /\ piniaStore = [s \in {"conversations"} |-> serializeState(s, conversations, activeConversationId, messages)]
    /\ saveTimeout = {}
    /\ relayEvents = {}
    /\ publishLog = <<>>
    /\ sendOps = NoObject
    /\ recvOps = {}
    /\ handled = {}
    /\ groupOps = NoObject
    /\ engineLog = {}
    /\ now = 100
    /\ clock = 0
    /\ watched = NoObject

\* createGroup up to the await of createMlsGroup. The group id is fresh.
CreateGroupStart(memberPubkeys) ==
    /\ MayStart
    /\ "c2" \notin DOMAIN conversations
    /\ ~\E op \in DOMAIN groupOps : groupOps[op].fn \in {"createGroup", "handleWelcome"}
    /\ groupOps' = Put(groupOps, NextOp, Frame("createGroup", "createMlsGroup", "c2", memberPubkeys))
    /\ engineLog' = engineLog \cup {[op |-> NextOp, call |-> "createMlsGroup", handle |-> Undefined]}
    /\ UNCHANGED <<conversations, mlsStates, mlsStateStore, idbQueue, piniaStore, saveTimeout, publishLog>>
    /\ GroupFrame

\* createGroup from upsertConversation to the await inside setMlsState. The member
\* list is the creator followed by every requested identity.
CreateGroupStore(op, finalState, welcomed) ==
    LET f == groupOps[op]
        conversation == Conversation("c2", <<Me>> \o f.memberPubkeys, deriveExporterSecret(finalState))
    IN /\ setMlsState(op, upsertConversation(conversations, conversation), "c2", finalState)
       /\ groupOps' = Put(groupOps, op, [f EXCEPT !.pc = "saveMlsState", !.newState = finalState,
                                                  !.resolved = welcomed])
       /\ UNCHANGED <<mlsStateStore, piniaStore, engineLog, publishLog>>

\* createMlsGroup settles; the KeyPackages of `resolved` are fetched and parsed and
\* the add call is submitted, or with none the conversation is stored at once.
CreateGroupCreated(op, ok, resolved) ==
    /\ At(op, "createGroup", "createMlsGroup")
    /\ resolved \subseteq SeqToSet(groupOps[op].memberPubkeys)
    /\ ~ok => resolved = {}
    /\ LET f == groupOps[op]
           state == Handle("c2", 0, {Me}, op)
       IN IF ~ok
          THEN /\ groupOps' = Put(groupOps, op, [f EXCEPT !.pc = "thrown", !.error = "createMlsGroup failed"])
               /\ UNCHANGED <<conversations, mlsStates, mlsStateStore, idbQueue, piniaStore, saveTimeout,
                              engineLog, publishLog>>
          ELSE IF resolved # {}
          THEN /\ groupOps' = Put(groupOps, op, [f EXCEPT !.pc = "addMlsGroupMembers", !.mlsState = state,
                                                          !.resolved = resolved])
               /\ engineLog' = engineLog \cup {[op |-> op, call |-> "addMlsGroupMembers", handle |-> state]}
               /\ UNCHANGED <<conversations, mlsStates, mlsStateStore, idbQueue, piniaStore, saveTimeout,
                              publishLog>>
          ELSE CreateGroupStore(op, state, {})
    /\ GroupFrame

\* addMlsGroupMembers settles; a refusal is logged and the group is kept as created.
CreateGroupAdded(op, ok) ==
    /\ At(op, "createGroup", "addMlsGroupMembers")
    /\ LET f == groupOps[op]
       IN IF ok
          THEN CreateGroupStore(op, Handle("c2", 1, {Me} \cup f.resolved, op), f.resolved)
          ELSE CreateGroupStore(op, f.mlsState, {})
    /\ GroupFrame

\* saveMlsState settles: the state is in 'mls_state' and setMlsState returns.
CreateGroupSaved(op) ==
    /\ At(op, "createGroup", "saveMlsState")
    /\ IdbReady(op)
    /\ IdbComplete(op)
    /\ groupOps' = Put(groupOps, op, [groupOps[op] EXCEPT !.pc = "welcomes"])
    /\ UNCHANGED <<conversations, mlsStates, piniaStore, saveTimeout, engineLog, publishLog>>
    /\ GroupFrame

\* The Welcome loop: each Welcome is gift-wrapped and handed to publishEvent
\* (`wrapped`; none without a signer, and not the ones whose gift wrap throws),
\* `sent` are those a relay acknowledged; a failure is only logged. Then the group
\* is subscribed.
CreateGroupWelcomes(op, wrapped, sent) ==
    /\ At(op, "createGroup", "welcomes")
    /\ sent \subseteq wrapped
    /\ wrapped \subseteq groupOps[op].resolved
    /\ LET f == groupOps[op]
       IN /\ publishLog' = publishLog \o Welcomes(op, "c2", Keep(f.memberPubkeys, wrapped))
          /\ groupOps' = Put(groupOps, op, [f EXCEPT !.pc = "done", !.added = Keep(f.memberPubkeys, sent)])
    /\ UNCHANGED <<conversations, mlsStates, mlsStateStore, idbQueue, piniaStore, saveTimeout, engineLog>>
    /\ GroupFrame

\* handleWelcome up to the await of joinMlsGroupFromWelcome; `outcome` is what
\* loadKeyPackageData, the engine and the group data extension will yield.
HandleWelcomeStart(outcome) ==
    /\ MayStart
    /\ loadKeyPackageData(mlsKeyPackageStore, KeyPackageEventId(Me)).tag # "keyPackageData"
           => outcome = "noKeyPackage"
    /\ ~\E op \in DOMAIN groupOps : groupOps[op].fn = "createGroup"
    /\ groupOps' = Put(groupOps, NextOp, [Frame("handleWelcome", "joinMlsGroupFromWelcome", "c2", <<>>)
                                             EXCEPT !.error = outcome])
    /\ engineLog' = IF outcome = "noKeyPackage"
                    THEN engineLog
                    ELSE engineLog \cup {[op |-> NextOp, call |-> "joinMlsGroupFromWelcome", handle |-> Undefined]}
    /\ UNCHANGED <<conversations, mlsStates, mlsStateStore, idbQueue, piniaStore, saveTimeout, publishLog>>
    /\ GroupFrame

\* The join settles: null on any failure, else upsertConversation and setMlsState
\* up to its await. The state is the one B's Welcome carries, on every delivery.
HandleWelcomeJoined(op) ==
    /\ At(op, "handleWelcome", "joinMlsGroupFromWelcome")
    /\ LET f == groupOps[op]
           state == OtherState
           conversation == Conversation("c2", <<"B", Me>>, deriveExporterSecret(state))
       IN IF f.error # "none"
          THEN /\ groupOps' = Put(groupOps, op, [f EXCEPT !.pc = "done"])
               /\ UNCHANGED <<conversations, mlsStates, idbQueue, saveTimeout>>
          ELSE /\ setMlsState(op, upsertConversation(conversations, conversation), "c2", state)
               /\ groupOps' = Put(groupOps, op, [f EXCEPT !.pc = "saveMlsState", !.newState = state])
    /\ UNCHANGED <<mlsStateStore, piniaStore, engineLog, publishLog>>
    /\ GroupFrame

\* saveMlsState settles. Fulfilled: the group is subscribed and the conversation
\* returned. Rejected (the transaction aborts): the catch logs and returns null.
HandleWelcomeSaved(op, ok) ==
    /\ At(op, "handleWelcome", "saveMlsState")
    /\ IdbReady(op)
    /\ IF ok THEN IdbComplete(op) ELSE IdbReject(op)
    /\ groupOps' = Put(groupOps, op, [groupOps[op] EXCEPT !.pc = "done",
                                          !.error = IF ok THEN @ ELSE "saveMlsState failed"])
    /\ UNCHANGED <<conversations, mlsStates, piniaStore, saveTimeout, engineLog, publishLog>>
    /\ GroupFrame

\* addMembers up to the await inside getMlsState: the conversation is snapshotted;
\* a cached state is returned, else loadMlsState issues its getItem.
AddMembersStart(conversationId, memberPubkeys) ==
    /\ MayStart
    /\ LET f == Frame("addMembers", "getMlsState", conversationId, memberPubkeys)
           miss == conversationId \in DOMAIN conversations /\ conversationId \notin DOMAIN mlsStates
       IN /\ groupOps' = Put(groupOps, NextOp,
                IF conversationId \notin DOMAIN conversations
                THEN [f EXCEPT !.pc = "thrown", !.error = "Conversation not found"]
                ELSE IF ~miss
                THEN [f EXCEPT !.pc = "fetchKeyPackageEvents",
                               !.members = conversations[conversationId].members,
                               !.mlsState = mlsStates[conversationId]]
                ELSE [f EXCEPT !.pc = "loadMlsState",
                               !.members = conversations[conversationId].members])
          /\ idbQueue' = IF miss
                         THEN Append(idbQueue, Request(NextOp, "getItem", conversationId, Undefined))
                         ELSE idbQueue
    /\ UNCHANGED <<conversations, mlsStates, mlsStateStore, piniaStore, saveTimeout, engineLog, publishLog>>
    /\ GroupFrame

\* getMlsState: loadMlsState settles. Nothing stored: addMembers throws. Else the
\* cache is set and deriveExporterSecret is awaited.
AddMembersLoaded(op) ==
    /\ At(op, "addMembers", "loadMlsState")
    /\ IdbReady(op)
    /\ IdbComplete(op)
    /\ LET f == groupOps[op]
           state == loadMlsState(mlsStateStore, f.conversationId)
       IN IF state = Thrown
          THEN /\ groupOps' = Put(groupOps, op, [f EXCEPT !.pc = "thrown", !.error = "loadMlsState threw"])
               /\ UNCHANGED mlsStates
          ELSE IF state = Null
          THEN /\ groupOps' = Put(groupOps, op, [f EXCEPT !.pc = "thrown",
                                                          !.error = "No MLS state for this conversation"])
               /\ UNCHANGED mlsStates
          ELSE /\ mlsStates' = Put(mlsStates, f.conversationId, state)
               /\ groupOps' = Put(groupOps, op, [f EXCEPT !.pc = "deriveExporterSecret", !.mlsState = state])
    /\ UNCHANGED <<conversations, piniaStore, saveTimeout, engineLog, publishLog>>
    /\ GroupFrame

\* getMlsState: deriveExporterSecret settles. Fulfilled: the secret is restored on
\* the conversation. Rejected: the catch only warns. Either way the state is returned.
AddMembersDerived(op, ok) ==
    /\ At(op, "addMembers", "deriveExporterSecret")
    /\ LET f == groupOps[op]
       IN /\ conversations' = IF ok
                               THEN withMlsMetadata(conversations, f.conversationId, deriveExporterSecret(f.mlsState))
                               ELSE conversations
          /\ Touch(IF ok /\ f.conversationId \in DOMAIN conversations THEN {"conversations"} ELSE {})
          /\ groupOps' = Put(groupOps, op, [f EXCEPT !.pc = "fetchKeyPackageEvents"])
    /\ UNCHANGED <<mlsStates, mlsStateStore, idbQueue, piniaStore, engineLog, publishLog>>
    /\ GroupFrame

\* fetchKeyPackageEvents settles and the events are parsed: identities without a
\* usable KeyPackage are failed; with none left the call returns, else the add call
\* is submitted on the state obtained at the start.
AddMembersFetched(op, resolved) ==
    /\ At(op, "addMembers", "fetchKeyPackageEvents")
    /\ resolved \subseteq SeqToSet(groupOps[op].memberPubkeys)
    /\ LET f == groupOps[op]
           failed == Keep(f.memberPubkeys, SeqToSet(f.memberPubkeys) \ resolved)
       IN IF resolved = {}
          THEN /\ groupOps' = Put(groupOps, op, [f EXCEPT !.pc = "done", !.failed = failed])
               /\ UNCHANGED engineLog
          ELSE /\ groupOps' = Put(groupOps, op, [f EXCEPT !.pc = "addMlsGroupMembers", !.failed = failed,
                                                          !.resolved = resolved])
               /\ engineLog' = engineLog \cup {[op |-> op, call |-> "addMlsGroupMembers", handle |-> f.mlsState]}
    /\ UNCHANGED <<conversations, mlsStates, mlsStateStore, idbQueue, piniaStore, saveTimeout, publishLog>>
    /\ GroupFrame

\* addMlsGroupMembers settles: a refusal fails every parsed identity; else
\* setMlsState runs up to its await.
AddMembersCommitted(op, ok) ==
    /\ At(op, "addMembers", "addMlsGroupMembers")
    /\ LET f == groupOps[op]
           newState == Handle(f.mlsState.groupId, f.mlsState.epoch + 1, f.mlsState.members \cup f.resolved, op)
       IN IF ~ok
          THEN /\ groupOps' = Put(groupOps, op, [f EXCEPT !.pc = "done", !.error = "addMlsGroupMembers failed",
                                                          !.failed = @ \o Keep(f.memberPubkeys, f.resolved)])
               /\ UNCHANGED <<conversations, mlsStates, idbQueue, saveTimeout>>
          ELSE /\ setMlsState(op, conversations, f.conversationId, newState)
               /\ groupOps' = Put(groupOps, op, [f EXCEPT !.pc = "saveMlsState", !.newState = newState])
    /\ UNCHANGED <<mlsStateStore, piniaStore, engineLog, publishLog>>
    /\ GroupFrame

\* saveMlsState settles: the state is in 'mls_state' and setMlsState returns.
AddMembersSaved(op) ==
    /\ At(op, "addMembers", "saveMlsState")
    /\ IdbReady(op)
    /\ IdbComplete(op)
    /\ groupOps' = Put(groupOps, op, [groupOps[op] EXCEPT !.pc = "welcomes"])
    /\ UNCHANGED <<conversations, mlsStates, piniaStore, saveTimeout, engineLog, publishLog>>
    /\ GroupFrame

\* The Welcome loop: each Welcome is gift-wrapped and handed to publishEvent
\* (`wrapped`; none without a signer, and not the ones whose gift wrap throws),
\* `sent` are those a relay acknowledged, the others are failed; updateMembers
\* with the members of the snapshot.
AddMembersWelcomes(op, wrapped, sent) ==
    /\ At(op, "addMembers", "welcomes")
    /\ sent \subseteq wrapped
    /\ wrapped \subseteq groupOps[op].resolved
    /\ LET f == groupOps[op]
           added == Keep(f.memberPubkeys, sent)
       IN /\ publishLog' = publishLog \o Welcomes(op, f.conversationId, Keep(f.memberPubkeys, wrapped))
          /\ conversations' = updateMembers(conversations, f.conversationId, f.members \o added)
          /\ Touch(IF f.conversationId \in DOMAIN conversations THEN {"conversations"} ELSE {})
          /\ groupOps' = Put(groupOps, op, [f EXCEPT !.pc = "done", !.added = added,
                                                     !.failed = @ \o Keep(f.memberPubkeys, f.resolved \ sent)])
    /\ UNCHANGED <<mlsStates, mlsStateStore, idbQueue, piniaStore, engineLog>>
    /\ GroupFrame

\* The 300 ms timer of a persisted store fires: the serialized state is written.
PersistFire(storeId) ==
    /\ storeId \in saveTimeout
    /\ piniaStore' = Put(piniaStore, storeId, serializeState(storeId, conversations, activeConversationId, messages))
    /\ saveTimeout' = saveTimeout \ {storeId}
    /\ UNCHANGED <<conversations, mlsStates, mlsStateStore, idbQueue, groupOps, engineLog, publishLog>>
    /\ GroupFrame

WelcomeOutcomes == {"none", "noKeyPackage", "joinFailed"}

GroupOpIds == 1..MaxCalls

\* No Welcome for c2 has been delivered yet.
FirstWelcome ==
    /\ "c2" \notin DOMAIN conversations
    /\ ~\E op \in DOMAIN groupOps : groupOps[op].fn = "handleWelcome"

GroupNext ==
    \/ \E memberPubkeys \in CreateLists : CreateGroupStart(memberPubkeys)
    \/ \E op \in GroupOpIds, ok \in BOOLEAN, resolved \in SUBSET CreateInvitees : CreateGroupCreated(op, ok, resolved)
    \/ \E op \in GroupOpIds, ok \in BOOLEAN : CreateGroupAdded(op, ok)
    \/ \E op \in GroupOpIds : CreateGroupSaved(op)
    \/ \E op \in GroupOpIds, wrapped \in SUBSET CreateInvitees : \E sent \in SUBSET wrapped : CreateGroupWelcomes(op, wrapped, sent)
    \/ FirstWelcome /\ \E outcome \in WelcomeOutcomes : HandleWelcomeStart(outcome)
    \/ \E op \in GroupOpIds : HandleWelcomeJoined(op)
    \/ \E op \in GroupOpIds, ok \in BOOLEAN : HandleWelcomeSaved(op, ok)
    \/ \E c \in ConvIds, memberPubkeys \in MemberLists : AddMembersStart(c, memberPubkeys)
    \/ \E op \in GroupOpIds : AddMembersLoaded(op)
    \/ \E op \in GroupOpIds, ok \in BOOLEAN : AddMembersDerived(op, ok)
    \/ \E op \in GroupOpIds, resolved \in SUBSET Invitees : AddMembersFetched(op, resolved)
    \/ \E op \in GroupOpIds, ok \in BOOLEAN : AddMembersCommitted(op, ok)
    \/ \E op \in GroupOpIds : AddMembersSaved(op)
    \/ \E op \in GroupOpIds, wrapped \in SUBSET Invitees : \E sent \in SUBSET wrapped : AddMembersWelcomes(op, wrapped, sent)
    \/ \E storeId \in PersistedStores : PersistFire(storeId)

\* Group creation, joining and membership changes with the durable stores.
SpecGroup == GroupInit /\ [][GroupNext]_vars

\* No call is in flight.
Sequential ==
    \A op \in DOMAIN groupOps : ~InFlight(op)

BatchNext ==
    \/ Sequential /\ \E memberPubkeys \in BatchCreateLists : CreateGroupStart(memberPubkeys)
    \/ \E op \in GroupOpIds, ok \in BOOLEAN, resolved \in SUBSET CreateInvitees : CreateGroupCreated(op, ok, resolved)
    \/ \E op \in GroupOpIds, ok \in BOOLEAN : CreateGroupAdded(op, ok)
    \/ \E op \in GroupOpIds : CreateGroupSaved(op)
    \/ \E op \in GroupOpIds, wrapped \in SUBSET CreateInvitees : \E sent \in SUBSET wrapped : CreateGroupWelcomes(op, wrapped, sent)
    \/ Sequential /\ \E c \in ConvIds, memberPubkeys \in BatchMemberLists : AddMembersStart(c, memberPubkeys)
    \/ \E op \in GroupOpIds, resolved \in SUBSET Invitees : AddMembersFetched(op, resolved)
    \/ \E op \in GroupOpIds, ok \in BOOLEAN : AddMembersCommitted(op, ok)
    \/ \E op \in GroupOpIds : AddMembersSaved(op)
    \/ \E op \in GroupOpIds, wrapped \in SUBSET Invitees : \E sent \in SUBSET wrapped : AddMembersWelcomes(op, wrapped, sent)

\* The states of GroupInit in which c1 was created in this session.
BatchInit ==
    /\ GroupInit
    /\ "c1" \in DOMAIN mlsStates

\* createGroup and addMembers calls on batches of identities, one call at a time.
SpecBatch == BatchInit /\ [][BatchNext]_vars

\* c2 was joined through a Welcome of B, in this session or before a reload.
EpochInit ==
    /\ messages = NoObject
    /\ \E start \in {"session", "reloaded"} :
        /\ conversations =
            [c \in {"c2"} |->
                IF start = "session"
                THEN Conversation("c2", <<"B", Me>>, deriveExporterSecret(OtherState))
                ELSE restoreConversation(JsonReplaced(
                         Conversation("c2", <<"B", Me>>, deriveExporterSecret(OtherState))))]
        /\ mlsStates = IF start = "session" THEN [c \in {"c2"} |-> OtherState] ELSE NoObject
    /\ mlsStateStore = [c \in {"c2"} |-> encodeState(OtherState)]
    /\ idbQueue = <<>>
    /\ mlsKeyPackageStore = [id \in {KeyPackageEventId(Me)} |-> KeyPackageData(id)]
    /\ activeConversationId = "null"
    /\ piniaStore = [s \in {"conversations"} |-> serializeState(s, conversations, activeConversationId, messages)]
    /\ saveTimeout = {}
    /\ relayEvents = {}
    /\ publishLog = <<>>
    /\ sendOps = NoObject
    /\ recvOps = {}
    /\ handled = {}
    /\ groupOps = NoObject
    /\ engineLog = {}
    /\ now = 100
    /\ clock = 0
    /\ watched = NoObject

EpochNext ==
    \/ \E outcome \in WelcomeOutcomes : HandleWelcomeStart(outcome)
    \/ \E op \in GroupOpIds : HandleWelcomeJoined(op)
    \/ \E op \in GroupOpIds, ok \in BOOLEAN : HandleWelcomeSaved(op, ok)
    \/ \E memberPubkeys \in MemberLists : AddMembersStart("c2", memberPubkeys)
    \/ \E op \in GroupOpIds : AddMembersLoaded(op)
    \/ \E op \in GroupOpIds, ok \in BOOLEAN : AddMembersDerived(op, ok)
    \/ \E op \in GroupOpIds, resolved \in SUBSET Invitees : AddMembersFetched(op, resolved)
    \/ \E op \in GroupOpIds, ok \in BOOLEAN : AddMembersCommitted(op, ok)
    \/ \E op \in GroupOpIds : AddMembersSaved(op)
    \/ \E op \in GroupOpIds, wrapped \in SUBSET Invitees : \E sent \in SUBSET wrapped : AddMembersWelcomes(op, wrapped, sent)

\* Membership changes on a joined group while its Welcome is delivered again.
SpecEpoch == EpochInit /\ [][EpochNext]_vars

\* c2 is not in the store (it was left, or its Welcome is still to be processed)
\* while a subscription of the group is open.
EarlyInit ==
    /\ ChatInit
    /\ "c2" \notin DOMAIN conversations

EarlyNext ==
    \/ \E outcome \in WelcomeOutcomes : HandleWelcomeStart(outcome)
    \/ \E op \in GroupOpIds : HandleWelcomeJoined(op)
    \/ \E op \in GroupOpIds, ok \in BOOLEAN : HandleWelcomeSaved(op, ok)
    \/ \E e \in Deliverable("c2") : HandleGroupEvent("c2", e)
    \/ \E r \in recvOps : HandleGroupEventResume(r)

\* Group messages of c2 arriving before, while and after its Welcome is processed.
SpecEarly == EarlyInit /\ [][EarlyNext]_vars

(***************************************************************************)
(* useGroupManagement.leaveGroup, with removeConversation and setActive of *)
(* the conversations store.                                                *)
(***************************************************************************)
\* A plausible bug of removeConversation: the active conversation is kept.
activeAfterRemoveKept(active, id) ==
    active

\* removeConversation: if (activeConversationId.value === id) it becomes null.
activeAfterRemove(active, id) ==
    IF active = id THEN "null" ELSE active

\* setActive: the unread count of an opened conversation is cleared.
setActive(convs, id) ==
    IF id # "null" /\ id \in DOMAIN convs
    THEN Put(convs, id, [convs[id] EXCEPT !.unreadCount = 0])
    ELSE convs

\* The values authStore.pubkey can have at a call.
AuthPubkeys == {Me, "null"}

LeaveFrame ==
    UNCHANGED <<messages, mlsStateStore, mlsKeyPackageStore, piniaStore, relayEvents, publishLog,
                sendOps, recvOps, handled, engineLog, now, clock, watched>>

\* The user opens a conversation, or none.
SetActive(id) ==
    /\ id # activeConversationId
    /\ activeConversationId' = id
    /\ conversations' = setActive(conversations, id)
    /\ Touch({"conversations"})
    /\ UNCHANGED <<mlsStates, idbQueue, groupOps>>
    /\ LeaveFrame

\* leaveGroup: it throws when not authenticated or for an unknown conversation;
\* else removeConversation drops the record and the cache entry, issues
\* removeMlsState without awaiting it and resets the active conversation, and
\* leaveGroup returns.
LeaveGroup(conversationId, pubkey) ==
    /\ MayStart
    /\ LET f == Frame("leaveGroup", "removeMlsState", conversationId, <<>>)
       IN IF pubkey = "null"
          THEN /\ groupOps' = Put(groupOps, NextOp, [f EXCEPT !.pc = "thrown", !.error = "Not authenticated"])
               /\ UNCHANGED <<conversations, activeConversationId, mlsStates, idbQueue, saveTimeout>>
          ELSE IF conversationId \notin DOMAIN conversations
          THEN /\ groupOps' = Put(groupOps, NextOp, [f EXCEPT !.pc = "thrown", !.error = "Conversation not found"])
               /\ UNCHANGED <<conversations, activeConversationId, mlsStates, idbQueue, saveTimeout>>
          ELSE /\ groupOps' = Put(groupOps, NextOp, f)
               /\ conversations' = Without(conversations, conversationId)
               /\ mlsStates' = Without(mlsStates, conversationId)
               /\ idbQueue' = Append(idbQueue, Request(NextOp, "removeItem", conversationId, Undefined))
               /\ activeConversationId' = activeAfterRemove(activeConversationId, conversationId)
               /\ Touch({"conversations"})
    /\ LeaveFrame

\* The removeItem of removeMlsState settles.
LeaveGroupRemoved(op) ==
    /\ At(op, "leaveGroup", "removeMlsState")
    /\ IdbReady(op)
    /\ IdbComplete(op)
    /\ groupOps' = Put(groupOps, op, [groupOps[op] EXCEPT !.pc = "done"])
    /\ UNCHANGED <<messages, conversations, activeConversationId, mlsStates, mlsKeyPackageStore, piniaStore,
                   saveTimeout, relayEvents, publishLog, sendOps, recvOps, handled, engineLog, now, clock, watched>>

LeaveNext ==
    \/ \E id \in ConvIds \cup {"null"} : SetActive(id)
    \/ \E c \in ConvIds, pubkey \in AuthPubkeys : LeaveGroup(c, pubkey)
    \/ \E op \in GroupOpIds : LeaveGroupRemoved(op)
    \/ \E memberPubkeys \in CreateLists : CreateGroupStart(memberPubkeys)
    \/ \E op \in GroupOpIds, ok \in BOOLEAN, resolved \in SUBSET CreateInvitees : CreateGroupCreated(op, ok, resolved)
    \/ \E op \in GroupOpIds, ok \in BOOLEAN : CreateGroupAdded(op, ok)
    \/ \E op \in GroupOpIds : CreateGroupSaved(op)
    \/ \E op \in GroupOpIds, wrapped \in SUBSET CreateInvitees : \E sent \in SUBSET wrapped : CreateGroupWelcomes(op, wrapped, sent)

\* Groups are opened, created and left.
SpecLeave == GroupInit /\ [][LeaveNext]_vars

(***************************************************************************)
(* useKeyPackages.deleteKeyPackage.                                        *)
(***************************************************************************)
KindDeletion == 5

\* createKeyPackageDeletionEvent(pubkey, [eventId]), signed.
createKeyPackageDeletionEvent(op, eventId) ==
    [kind |-> KindDeletion, op |-> op, h |-> "null", e |-> eventId]

RetireFrame ==
    UNCHANGED <<messages, conversations, activeConversationId, mlsStates, mlsStateStore, idbQueue, piniaStore,
                saveTimeout, relayEvents, sendOps, recvOps, handled, engineLog, now, clock, watched>>

\* deleteKeyPackage up to the await of publishEvent: the deletion event is signed
\* and handed to the relays.
DeleteKeyPackageStart(eventId) ==
    /\ MayStart
    /\ groupOps' = Put(groupOps, NextOp, [fn |-> "deleteKeyPackage", pc |-> "publishEvent",
                                          eventId |-> eventId, error |-> "none"])
    /\ publishLog' = Append(publishLog, createKeyPackageDeletionEvent(NextOp, eventId))
    /\ UNCHANGED mlsKeyPackageStore
    /\ RetireFrame

\* publishEvent settles: rejected by all relays, deleteKeyPackage throws; else the
\* KeyPackage leaves the in-memory store and removeKeyPackageData is awaited.
DeleteKeyPackagePublished(op, ok) ==
    /\ At(op, "deleteKeyPackage", "publishEvent")
    /\ groupOps' = Put(groupOps, op,
            IF ok THEN [groupOps[op] EXCEPT !.pc = "removeKeyPackageData"]
            ELSE [groupOps[op] EXCEPT !.pc = "thrown", !.error = "rejected by all relays"])
    /\ UNCHANGED <<publishLog, mlsKeyPackageStore>>
    /\ RetireFrame

\* removeKeyPackageData settles: the private data is gone from 'mls_key_packages'.
DeleteKeyPackageRemoved(op) ==
    /\ At(op, "deleteKeyPackage", "removeKeyPackageData")
    /\ mlsKeyPackageStore' = Without(mlsKeyPackageStore, groupOps[op].eventId)
    /\ groupOps' = Put(groupOps, op, [groupOps[op] EXCEPT !.pc = "done"])
    /\ UNCHANGED publishLog
    /\ RetireFrame

RetireNext ==
    \/ DeleteKeyPackageStart(KeyPackageEventId(Me))
    \/ \E op \in GroupOpIds, ok \in BOOLEAN : DeleteKeyPackagePublished(op, ok)
    \/ \E op \in GroupOpIds : DeleteKeyPackageRemoved(op)
    \/ \E outcome \in WelcomeOutcomes : HandleWelcomeStart(outcome)
    \/ \E op \in GroupOpIds : HandleWelcomeJoined(op)
    \/ \E op \in GroupOpIds, ok \in BOOLEAN : HandleWelcomeSaved(op, ok)

\* The own KeyPackage is retired while B's Welcome that consumed it may arrive.
SpecRetire == EarlyInit /\ [][RetireNext]_vars

(***************************************************************************)
(* Claims about the messages store.                                        *)
(***************************************************************************)
UniqueIds(msgs) ==
    \A c \in DOMAIN msgs : \A i, j \in 1..Len(msgs[c]) :
        msgs[c][i].id = msgs[c][j].id => i = j

\* C7: addMessage is idempotent on message id. After any sequence of addMessage
\* calls a conversation holds at most one record per id, and an addMessage call
\* whose message id is already stored in the conversation leaves the store
\* unchanged.
C7_AddMessageIdempotent ==
    /\ UniqueIds(messages)
    /\ \A msg \in StoreMsgs :
        HasId(messages, msg.conversationId, msg.id) => addMessage(messages, msg) = messages

\* C7 witness: c1 holds two records, one of them m1, and a redelivery of m1 with
\* other fields than the stored record's is accepted by the store.
C7_Witness ==
    /\ "c1" \in DOMAIN messages
    /\ Len(messages["c1"]) = 2
    /\ \E msg \in StoreMsgs :
        /\ msg.conversationId = "c1"
        /\ HasId(messages, "c1", msg.id)
        /\ \A i \in 1..Len(messages["c1"]) : messages["c1"][i] # msg
        /\ ENABLED AddMessage(msg)

\* An existing entry the optimistic merge of spec 4.6 rule 2 pairs with msg.
MergeCandidate(m, msg) ==
    /\ m.status \in {"sending", "sent"}
    /\ m.senderPubkey = msg.senderPubkey
    /\ m.content = msg.content
    /\ Abs(m.createdAt - msg.createdAt) <= 60

\* C8: optimistic merge. When addMessage receives a message with a new id and the
\* conversation holds an entry with status sending or sent, the same sender, the
\* same content and a timestamp within 60 seconds, that entry is replaced in place
\* by the incoming message and the record count does not grow.
C8_OptimisticMerge ==
    [][\A msg \in StoreMsgs :
        LET old == MsgsOf(messages, msg.conversationId)
            new == MsgsOf(messages', msg.conversationId)
        IN (/\ AddMessage(msg)
            /\ ~HasId(messages, msg.conversationId, msg.id)
            /\ \E i \in 1..Len(old) : MergeCandidate(old[i], msg))
           => /\ Len(new) = Len(old)
              /\ \E i \in 1..Len(old) :
                    /\ MergeCandidate(old[i], msg)
                    /\ new[i] = msg
                    /\ \A j \in 1..Len(old) : j # i => new[j] = old[j]]_vars

\* An existing entry the content-duplicate guard of spec 4.6 rule 3 matches with msg.
ContentDuplicate(m, msg) ==
    /\ m.senderPubkey = msg.senderPubkey
    /\ m.content = msg.content
    /\ Abs(m.createdAt - msg.createdAt) <= 5

\* C9: content-duplicate guard. When addMessage receives a message with a new id
\* and some existing entry of the conversation, whatever its status, has the same
\* sender, the same content and a timestamp within 5 seconds, the incoming message
\* is dropped: no record with its id is stored and the count does not grow.
C9_ContentDuplicateGuard ==
    [][\A msg \in StoreMsgs :
        LET old == MsgsOf(messages, msg.conversationId)
            new == MsgsOf(messages', msg.conversationId)
        IN (/\ AddMessage(msg)
            /\ ~HasId(messages, msg.conversationId, msg.id)
            /\ \E i \in 1..Len(old) : ContentDuplicate(old[i], msg))
           => /\ Len(new) = Len(old)
              /\ ~HasId(messages', msg.conversationId, msg.id)]_vars

(***************************************************************************)
(* Claims about sendMessage and handleGroupEvent.                          *)
(***************************************************************************)
\* The records of a conversation that stem from an envelope (not a pending id).
EnvelopeRecords(conversationId) ==
    {m \in {MsgsOf(messages, conversationId)[i] : i \in 1..Len(MsgsOf(messages, conversationId))} :
        m.id.src # "randomHex"}

EnvelopeOf(conversationId, id) ==
    CHOOSE e \in Deliverable(conversationId) : e.id = id

\* C1: sendMessage on a conversation without a derived secret fails with an error
\* surfaced to the caller and publishes nothing: such a call is rejected, has
\* created no event, and nothing handed to publishEvent or accepted by a relay is
\* addressed to a conversation without a secret.
C1_NoSecretNoPublish ==
    /\ \A op \in DOMAIN sendOps :
        ~HasSecret(conversations, sendOps[op].conversationId)
            => /\ sendOps[op].pc = "thrown"
               /\ sendOps[op].error \in {"Conversation not found", "no MLS exporter secret"}
               /\ sendOps[op].event = Undefined
    /\ \A i \in 1..Len(publishLog) : HasSecret(conversations, publishLog[i].h)
    /\ \A e \in relayEvents : HasSecret(conversations, e.h)

\* C1 witness: a sendMessage call on the secret-less conversation c2 was rejected
\* and its optimistic record is marked failed.
C1_Witness ==
    \E op \in DOMAIN sendOps :
        /\ sendOps[op].conversationId = "c2"
        /\ "c2" \in DOMAIN conversations
        /\ sendOps[op].error = "no MLS exporter secret"
        /\ \E i \in 1..Len(MsgsOf(messages, "c2")) :
            /\ messages["c2"][i].id = sendOps[op].pendingId
            /\ messages["c2"][i].status = "failed"

\* C2: handleGroupEvent on a conversation without a derived secret never stores
\* decrypted plaintext: every record it stored there is the cannot-decrypt
\* placeholder and its sender is the ephemeral (transport-level) key of the envelope.
C2_NoSecretPlaceholder ==
    \A c \in ConvIds :
        ~HasSecret(conversations, c) =>
            \A m \in EnvelopeRecords(c) :
                /\ m.content = Placeholder
                /\ m.senderPubkey = EnvelopeOf(c, m.id).pubkey
                /\ m.content # EnvelopeOf(c, m.id).content.payload.content

\* C2 witness: the envelope addressed to c2 was handled while c2 exists without a
\* secret, and its record is stored.
C2_Witness ==
    /\ "c2" \in DOMAIN conversations
    /\ \E h \in handled : h.conversationId = "c2" /\ h.event.id = RemoteId(3)
    /\ HasId(messages, "c2", RemoteId(3))

\* C3: with a derived secret, a decrypt failure is not raised: the handler returns
\* and the stored record is the placeholder with the ephemeral sender; a record
\* carries the inner content and sender only if the envelope decrypts under the
\* conversation's secret.
C3_DecryptFailurePlaceholder ==
    /\ \A c \in ConvIds :
        HasSecret(conversations, c) =>
            \A m \in EnvelopeRecords(c) :
                LET e == EnvelopeOf(c, m.id)
                IN IF DecryptOk(e.content, conversations[c].exporterSecret)
                   THEN /\ m.content = e.content.payload.content
                        /\ m.senderPubkey = e.content.payload.pubkey
                   ELSE /\ m.content = Placeholder
                        /\ m.senderPubkey = e.pubkey
    /\ \A h \in handled :
        (/\ HasSecret(conversations, h.conversationId)
         /\ ParseOk(h.event)
         /\ ~DecryptOk(h.event.content, conversations[h.conversationId].exporterSecret))
            => \E m \in EnvelopeRecords(h.conversationId) :
                m.id = h.event.id /\ m.content = Placeholder

\* C3 witness: the envelope of a stale epoch was handled in c1, which has a secret,
\* and its placeholder record is stored.
C3_Witness ==
    /\ \E h \in handled : h.conversationId = "c1" /\ h.event.id = RemoteId(2)
    /\ \E m \in EnvelopeRecords("c1") : m.id = RemoteId(2) /\ m.content = Placeholder

C10_SentMessageOnce ==
    \A op \in DOMAIN sendOps :
        LET f == sendOps[op]
            recs == {i \in 1..Len(MsgsOf(messages, f.conversationId)) :
                        messages[f.conversationId][i].id \in {f.pendingId, EventId(op)}}
        IN (f.pc = "done" /\ ~\E r \in recvOps : r.event.id = EventId(op))
            => /\ Cardinality(recs) = 1
               /\ \A i \in recs : messages[f.conversationId][i].status = "sent"
               /\ UniqueIds(messages)

(***************************************************************************)
(* Claims about the session state and its persistence.                     *)
(***************************************************************************)
\* C5: the derived secret is never persisted. In every reachable state, no
\* conversation saved in 'pinia_state' has an exporterSecret key, and every value
\* in 'mls_state' is an encoded session state, never a secret.
C5_SecretNeverPersisted ==
    /\ \A c \in DOMAIN piniaStore["conversations"].conversations :
        "exporterSecret" \notin DOMAIN piniaStore["conversations"].conversations[c]
    /\ \A c \in DOMAIN mlsStateStore : mlsStateStore[c].tag = "encodedState"

\* C5 witness: c2 was created or joined and members were added to c1; both carry
\* their secret in memory, the debounced save has written both, and 'mls_state'
\* holds the state of the add.
C5_Witness ==
    /\ saveTimeout = {}
    /\ \A c \in {"c1", "c2"} :
        /\ HasSecret(conversations, c)
        /\ c \in DOMAIN piniaStore["conversations"].conversations
        /\ c \in DOMAIN mlsStateStore
    /\ \E op \in DOMAIN groupOps :
        /\ At(op, "addMembers", "done")
        /\ groupOps[op].added # <<>>
        /\ mlsStateStore["c1"] = encodeState(groupOps[op].newState)
    /\ piniaStore["conversations"].conversations["c1"].members = conversations["c1"].members

\* C6: membership changes on one conversation are serialized: no two addMembers
\* calls on the same conversation have both submitted an engine add-call against
\* the same session handle.
C6_AddCallsSerialized ==
    \A a, b \in DOMAIN groupOps :
        (/\ a # b
         /\ groupOps[a].conversationId = groupOps[b].conversationId
         /\ groupOps[a].pc = "addMlsGroupMembers"
         /\ groupOps[b].pc = "addMlsGroupMembers")
            => groupOps[a].mlsState # groupOps[b].mlsState

(***************************************************************************)
(* Claims about the life of an optimistic record.                          *)
(***************************************************************************)
\* The statuses of the records of a conversation that carry one of the given ids.
StatusesOf(conversationId, ids) ==
    {MsgsOf(messages, conversationId)[i].status :
        i \in {j \in 1..Len(MsgsOf(messages, conversationId)) :
                  MsgsOf(messages, conversationId)[j].id \in ids}}

\* The life of the optimistic record of one sendMessage call: sending while the
\* call is suspended, sent under the event's id if and only if publishEvent
\* resolved, failed under the pending id otherwise.
RecordFollowsCall(op) ==
    LET f == sendOps[op]
    IN /\ f.pc \in {"encrypt", "publish"} => StatusesOf(f.conversationId, {f.pendingId}) = {"sending"}
       /\ f.pc = "done" => /\ f.outcome = "acked"
                           /\ StatusesOf(f.conversationId, {f.pendingId}) = {}
                           /\ StatusesOf(f.conversationId, {EventId(op)}) = {"sent"}
       /\ f.pc = "thrown" => /\ f.outcome # "acked"
                             /\ StatusesOf(f.conversationId, {f.pendingId}) = {"failed"}

\* No record is in sending unless its sendMessage call is still suspended.
NoSendingLeftBehind ==
    \A c \in DOMAIN messages : \A i \in 1..Len(messages[c]) :
        messages[c][i].status = "sending" =>
            \E op \in DOMAIN sendOps :
                /\ sendOps[op].pendingId = messages[c][i].id
                /\ sendOps[op].pc \in {"encrypt", "publish"}

AddMembersReturns(op) ==
    /\ At(op, "addMembers", "welcomes")
    /\ groupOps'[op].pc = "done"

\* The identities of a call for which no usable KeyPackage was found.
Unresolved(f) ==
    SeqToSet(f.memberPubkeys) \ f.resolved

Undelivered(f) ==
    f.resolved \ SeqToSet(f.added)

\* C13: when addMembers returns after the Welcome loop, failed holds the identities
\* without a usable KeyPackage followed by exactly the identities whose Welcome was
\* not delivered, every other resolved identity is in added and its Welcome was
\* published, and the step leaves the session handle in the cache and in
\* 'mls_state' and the conversation's secret as the engine add-call committed them.
C13_DeliveryFailureIsolated ==
    [][\A op \in DOMAIN groupOps :
        AddMembersReturns(op) =>
            LET f == groupOps'[op]
                c == f.conversationId
            IN /\ f.failed = Keep(f.memberPubkeys, Unresolved(f)) \o Keep(f.memberPubkeys, Undelivered(f))
               /\ f.added = Keep(f.memberPubkeys, f.resolved \ Undelivered(f))
               /\ \A pubkey \in SeqToSet(f.added) :
                      \E i \in 1..Len(publishLog') : publishLog'[i] = giftWrapWelcome(op, c, pubkey)
               /\ mlsStates'[c] = f.newState
               /\ mlsStateStore'[c] = encodeState(f.newState)
               /\ conversations'[c].exporterSecret = deriveExporterSecret(f.newState)
               /\ f.newState.epoch = f.mlsState.epoch + 1
               /\ f.resolved \subseteq f.newState.members]_vars

\* C13 witness: addMembers returned from a call in which all three identities
\* resolved; the Welcome of the first was not delivered and it is the only failed
\* identity, the two after it were added, and the handle of the add is in place.
C13_Witness ==
    \E op \in DOMAIN groupOps :
        /\ At(op, "addMembers", "done")
        /\ groupOps[op].memberPubkeys = <<"C", "D", "E">>
        /\ groupOps[op].resolved = {"C", "D", "E"}
        /\ groupOps[op].failed = <<"C">>
        /\ groupOps[op].added = <<"D", "E">>
        /\ mlsStates[groupOps[op].conversationId] = groupOps[op].newState
        /\ "C" \in groupOps[op].newState.members

\* The calls that got past the fetch and parse of the KeyPackages.
PastParse(f) ==
    f.pc \in {"addMlsGroupMembers", "saveMlsState", "welcomes", "done"}

\* The calls whose engine add-call was accepted.
AddAccepted(f) ==
    /\ f.pc \in {"saveMlsState", "welcomes", "done"}
    /\ f.error = "none"
    /\ f.resolved # {}

\* C14: an identity without a usable KeyPackage aborts neither call. createGroup
\* throws only when createMlsGroup fails and otherwise stores the group, whose
\* session holds every resolved identity when the add was accepted; addMembers
\* throws only for an unknown conversation or a missing state, reports every
\* unresolved identity in failed, and an accepted add holds every resolved identity.
C14_UnresolvedNeverAborts ==
    \A op \in DOMAIN groupOps :
        LET f == groupOps[op]
        IN /\ (f.fn = "createGroup" /\ f.pc = "thrown") => f.error = "createMlsGroup failed"
           /\ (f.fn = "createGroup" /\ f.pc \in {"saveMlsState", "welcomes", "done"}) =>
                  /\ "c2" \in DOMAIN conversations
                  /\ "c2" \in DOMAIN mlsStates
                  /\ f.newState.members = {Me} \cup f.resolved
           /\ (f.fn = "addMembers" /\ f.pc = "thrown") =>
                  f.error \in {"Conversation not found", "No MLS state for this conversation"}
           /\ (f.fn = "addMembers" /\ (PastParse(f) \/ f.pc = "done")) =>
                  \A pubkey \in Unresolved(f) : pubkey \in SeqToSet(f.failed)
           /\ (f.fn = "addMembers" /\ AddAccepted(f)) =>
                  f.newState.members = f.mlsState.members \cup f.resolved

\* C14 witness: createGroup stored c2 with B although C had no usable KeyPackage,
\* and addMembers added C and E although D had none; D alone is failed.
C14_Witness ==
    \E a, b \in DOMAIN groupOps :
        /\ At(a, "createGroup", "done")
        /\ groupOps[a].memberPubkeys = <<"B", "C">>
        /\ groupOps[a].newState.members = {Me, "B"}
        /\ "c2" \in DOMAIN conversations
        /\ At(b, "addMembers", "done")
        /\ groupOps[b].memberPubkeys = <<"C", "D", "E">>
        /\ groupOps[b].resolved = {"C", "E"}
        /\ groupOps[b].added = <<"C", "E">>
        /\ groupOps[b].failed = <<"D">>

\* The step in which addMlsGroupMembers settles with a refusal for a call: the
\* call leaves the await without a handle of a new epoch.
EngineRefuses(op) ==
    /\ groupOps[op].pc = "addMlsGroupMembers"
    /\ groupOps'[op].pc # "addMlsGroupMembers"
    /\ groupOps'[op].newState \in {Undefined, groupOps[op].mlsState}

\* The caller of a call learns that the add failed: the call throws, or addMembers
\* returns with nothing added and every identity in failed.
RefusalSurfaced(f) ==
    \/ f.pc = "thrown"
    \/ /\ f.fn = "addMembers"
       /\ f.pc = "done"
       /\ f.added = <<>>
       /\ SeqToSet(f.failed) = SeqToSet(f.memberPubkeys)

\* C15: when the engine refuses the membership-add call, the refusal is surfaced to
\* the caller of createGroup or addMembers and the step leaves the cached session
\* handles, the durable-store requests and the conversations (secret and member
\* list) as they were.
C15_EngineRefusalIsHardFailure ==
    [][\A op \in DOMAIN groupOps :
        EngineRefuses(op) =>
            /\ RefusalSurfaced(groupOps'[op])
            /\ mlsStates' = mlsStates
            /\ idbQueue' = idbQueue
            /\ conversations' = conversations]_vars

\* The step in which createGroup stores its conversation.
CreateGroupStores(op) ==
    /\ groupOps[op].fn = "createGroup"
    /\ groupOps[op].pc \in {"createMlsGroup", "addMlsGroupMembers"}
    /\ groupOps'[op].pc = "saveMlsState"

\* C16: the member list createGroup stores is the creator followed by exactly the
\* requested identities that are in the session it stores; with two of them in the
\* session the conversation has three members.
C16_MembersAreThoseAdded ==
    [][\A op \in DOMAIN groupOps :
        CreateGroupStores(op) =>
            LET f == groupOps'[op]
                inSession == f.newState.members \ {Me}
            IN /\ conversations'["c2"].members = <<Me>> \o Keep(f.memberPubkeys, inSession)
               /\ Cardinality(inSession) = 2 => Len(conversations'["c2"].members) = 3]_vars

\* The number of published events that are the Welcome of a call for an identity.
WelcomeCount(op, conversationId, pubkey) ==
    Cardinality({i \in 1..Len(publishLog) : publishLog[i] = giftWrapWelcome(op, conversationId, pubkey)})

\* C17: once createGroup has returned, exactly one gift-wrapped Welcome carrying
\* the id of the consumed KeyPackage event has been published for each identity in
\* the session it stored, and none for any other requested identity.
C17_OneWelcomePerAddedIdentity ==
    \A op \in DOMAIN groupOps :
        At(op, "createGroup", "done") =>
            \A pubkey \in SeqToSet(groupOps[op].memberPubkeys) :
                WelcomeCount(op, "c2", pubkey)
                    = IF pubkey \in groupOps[op].newState.members THEN 1 ELSE 0

\* The step publishes a Welcome of a call.
PublishesWelcome(op) ==
    \E i \in (Len(publishLog) + 1)..Len(publishLog') :
        /\ publishLog'[i].kind = KindGiftWrap
        /\ publishLog'[i].op = op

C19_EpochNeverDecreases ==
    [][/\ \A c \in DOMAIN mlsStates :
            /\ c \in DOMAIN mlsStates'
            /\ mlsStates'[c].epoch >= mlsStates[c].epoch
       /\ \A c \in DOMAIN mlsStateStore :
            /\ c \in DOMAIN mlsStateStore'
            /\ decodeMlsState(mlsStateStore'[c]).epoch >= decodeMlsState(mlsStateStore[c]).epoch]_vars

\* No handler is suspended.
Quiescent ==
    /\ recvOps = {}
    /\ \A op \in DOMAIN groupOps : ~InFlight(op)

\* C20: a group message that arrived before the local state could decrypt it is
\* decrypted once the state is there: when no handler is suspended, every stored
\* record whose envelope decrypts under the conversation's secret carries the
\* decrypted content and not the placeholder.
C20_EarlyMessageDecrypted ==
    Quiescent =>
        \A c \in DOMAIN conversations :
            \A m \in EnvelopeRecords(c) :
                DecryptOk(EnvelopeOf(c, m.id).content, conversations[c].exporterSecret)
                    => m.content = EnvelopeOf(c, m.id).content.payload.content

(***************************************************************************)
(* Claims about Welcomes delivered again.                                  *)
(***************************************************************************)
\* The step in which a handleWelcome call leaves the await of the join.
WelcomeSettles(op) ==
    /\ groupOps[op].fn = "handleWelcome"
    /\ groupOps[op].pc = "joinMlsGroupFromWelcome"
    /\ groupOps'[op].pc # "joinMlsGroupFromWelcome"

\* C21: a Welcome is single-use. When the Welcome of c2 is delivered while c2 is a
\* joined conversation, handleWelcome leaves the conversation record, the cached
\* session handle and the requests on 'mls_state' as they are.
C21_WelcomeSingleUse ==
    [][\A op \in DOMAIN groupOps :
        (WelcomeSettles(op) /\ "c2" \in DOMAIN conversations) =>
            /\ conversations' = conversations
            /\ mlsStates' = mlsStates
            /\ idbQueue' = idbQueue]_vars

\* A handleWelcome call that has not returned a conversation so far.
NoJoinResult(f) ==
    /\ f.fn = "handleWelcome"
    /\ f.pc = "joinMlsGroupFromWelcome" \/ (f.pc = "done" /\ f.error # "none")

\* C22: a Welcome that fails at a layer is rejected as a whole. While every
\* handleWelcome call so far failed or is still awaiting the join, c2 is neither a
\* conversation nor in the session cache nor in 'mls_state'.
C22_FailedWelcomeLeavesNothing ==
    (\A op \in DOMAIN groupOps : NoJoinResult(groupOps[op])) =>
        /\ "c2" \notin DOMAIN conversations
        /\ "c2" \notin DOMAIN mlsStates
        /\ "c2" \notin DOMAIN mlsStateStore

\* The own KeyPackage was retired: a deleteKeyPackage call on it has returned.
Retired ==
    \E op \in DOMAIN groupOps :
        /\ At(op, "deleteKeyPackage", "done")
        /\ groupOps[op].eventId = KeyPackageEventId(Me)

\* C23: retiring a KeyPackage does not invalidate an id a sender has consumed: a
\* handleWelcome call started after the retirement on a Welcome that consumed the
\* retired id does not fail for want of the KeyPackage.
C23_RetiredIdStillJoins ==
    [][\A op \in DOMAIN groupOps' \ DOMAIN groupOps :
        (groupOps'[op].fn = "handleWelcome" /\ Retired) => groupOps'[op].error # "noKeyPackage"]_vars

\* The step in which a leaveGroup call is made.
LeaveCalled(op) ==
    /\ op \notin DOMAIN groupOps
    /\ op \in DOMAIN groupOps'
    /\ groupOps'[op].fn = "leaveGroup"

StoredStates == {NoObject,
                 [c \in {"c1"} |-> encodeState(CurrentState)],
                 [c \in {"c1"} |-> CorruptBytes]}

StoredKeyPackages == {NoObject,
                      [id \in {KeyPackageEventId(Me)} |-> KeyPackageData(id)],
                      [id \in {KeyPackageEventId(Me)} |-> CorruptBytes]}

LoadInit ==
    /\ messages = NoObject
    /\ conversations =
            [c \in {"c1"} |->
                restoreConversation(JsonReplaced(
                    Conversation("c1", <<"A", "B">>, deriveExporterSecret(CurrentState))))]
    /\ mlsStates = NoObject
    /\ mlsStateStore \in StoredStates
    /\ idbQueue = <<>>
    /\ mlsKeyPackageStore \in StoredKeyPackages
    /\ activeConversationId = "null"
    /\ piniaStore = [s \in {"conversations"} |-> serializeState(s, conversations, activeConversationId, messages)]
    /\ saveTimeout = {}
    /\ relayEvents = {}
    /\ publishLog = <<>>
    /\ sendOps = NoObject
    /\ recvOps = {}
    /\ handled = {}
    /\ groupOps = NoObject
    /\ engineLog = {}
    /\ now = 100
    /\ clock = 0
    /\ watched = NoObject

LoadNext ==
    \/ \E outcome \in WelcomeOutcomes : HandleWelcomeStart(outcome)
    \/ \E op \in GroupOpIds : HandleWelcomeJoined(op)
    \/ \E op \in GroupOpIds, ok \in BOOLEAN : HandleWelcomeSaved(op, ok)
    \/ \E memberPubkeys \in MemberLists : AddMembersStart("c1", memberPubkeys)
    \/ \E op \in GroupOpIds : AddMembersLoaded(op)
    \/ \E op \in GroupOpIds, ok \in BOOLEAN : AddMembersDerived(op, ok)
    \/ \E op \in GroupOpIds, resolved \in SUBSET Invitees : AddMembersFetched(op, resolved)
    \/ \E op \in GroupOpIds, ok \in BOOLEAN : AddMembersCommitted(op, ok)
    \/ \E op \in GroupOpIds : AddMembersSaved(op)
    \/ \E op \in GroupOpIds, wrapped \in SUBSET Invitees : \E sent \in SUBSET wrapped : AddMembersWelcomes(op, wrapped, sent)

SpecLoad == LoadInit /\ [][LoadNext]_vars

\* A stored record that is absent or does not decode.
Unloadable(store, key, tag) ==
    key \notin DOMAIN store \/ ~Decodes(store[key], tag)

\* C25: loading the ratchet state of a conversation, or the private data of a
\* KeyPackage, from storage gives "nothing stored" (null) when the record is
\* absent or corrupt, and never throws: no caller ends on a load exception.
C25_LoadNeverThrows ==
    /\ \A c \in ConvIds :
        /\ loadMlsState(mlsStateStore, c) # Thrown
        /\ Unloadable(mlsStateStore, c, "encodedState") => loadMlsState(mlsStateStore, c) = Null
    /\ \A id \in {KeyPackageEventId(Me)} :
        /\ loadKeyPackageData(mlsKeyPackageStore, id) # Thrown
        /\ Unloadable(mlsKeyPackageStore, id, "keyPackageData") => loadKeyPackageData(mlsKeyPackageStore, id) = Null
    /\ \A op \in DOMAIN groupOps : groupOps[op].error # "loadMlsState threw"

\* C25 happens: with a corrupt state record addMembers ended on "No MLS state",
\* and with a corrupt KeyPackage record a Welcome was turned down.
C25_Witness ==
    /\ "c1" \in DOMAIN mlsStateStore
    /\ mlsStateStore["c1"] = CorruptBytes
    /\ mlsKeyPackageStore = [id \in {KeyPackageEventId(Me)} |-> CorruptBytes]
    /\ \E op \in DOMAIN groupOps :
        /\ groupOps[op].fn = "addMembers"
        /\ groupOps[op].error = "No MLS state for this conversation"
    /\ \E op \in DOMAIN groupOps :
        /\ groupOps[op].fn = "handleWelcome"
        /\ groupOps[op].pc = "done"

\* getMlsState of call `op` returns the state it loaded from 'mls_state'.
GetMlsStateReturnsLoaded(op) ==
    /\ op \in DOMAIN groupOps
    /\ groupOps[op].pc = "deriveExporterSecret"
    /\ groupOps'[op].pc = "fetchKeyPackageEvents"

\* C26: when getMlsState returns a state it loaded from the durable store for an
\* existing conversation, the conversation then carries the secret derived from
\* that state and is flagged as having a session.
C26_LoadRederivesSecret ==
    [][\A op \in GroupOpIds :
          GetMlsStateReturnsLoaded(op) /\ groupOps[op].conversationId \in DOMAIN conversations'
          => /\ conversations'[groupOps[op].conversationId].exporterSecret
                    = deriveExporterSecret(groupOps[op].mlsState)
             /\ conversations'[groupOps[op].conversationId].hasMlsSession = TRUE]_vars

\* ---------------------------------------------------------------------------
\* Startup: the chat page mounts after a reload.
\* ---------------------------------------------------------------------------

\* Chat.vue onMounted: unauthenticated, the page redirects to the login and returns;
\* else it awaits the relay list, the contacts and their KeyPackages.
OnMountedStart(pubkey) ==
    /\ MayStart
    /\ ~\E op \in DOMAIN groupOps : groupOps[op].fn = "onMounted"
    /\ groupOps' = Put(groupOps, NextOp,
            IF pubkey = "null"
            THEN [Frame("onMounted", "redirected", "null", <<>>) EXCEPT !.error = "login"]
            ELSE Frame("onMounted", "fetchUserRelays", "null", <<>>))
    /\ UNCHANGED <<conversations, mlsStates, mlsStateStore, idbQueue, piniaStore, saveTimeout, engineLog, publishLog>>
    /\ GroupFrame

\* onMounted: the fetches settle; the relay connections are awaited.
OnMountedFetched(op) ==
    /\ At(op, "onMounted", "fetchUserRelays")
    /\ groupOps' = Put(groupOps, op, [groupOps[op] EXCEPT !.pc = "ensureRelayConnections"])
    /\ UNCHANGED <<conversations, mlsStates, mlsStateStore, idbQueue, piniaStore, saveTimeout, engineLog, publishLog>>
    /\ GroupFrame

\* onMounted: the connections are up; the status poll and the Welcome subscription
\* are installed and the hook returns.
OnMountedSubscribed(op) ==
    /\ At(op, "onMounted", "ensureRelayConnections")
    /\ groupOps' = Put(groupOps, op, [groupOps[op] EXCEPT !.pc = "done"])
    /\ UNCHANGED <<conversations, mlsStates, mlsStateStore, idbQueue, piniaStore, saveTimeout, engineLog, publishLog>>
    /\ GroupFrame

\* The Welcome subscription of onMounted is installed.
Subscribed ==
    \E op \in DOMAIN groupOps : groupOps[op].fn = "onMounted" /\ groupOps[op].pc = "done"

StartupNext ==
    \/ \E pubkey \in AuthPubkeys : OnMountedStart(pubkey)
    \/ \E op \in GroupOpIds : OnMountedFetched(op)
    \/ \E op \in GroupOpIds : OnMountedSubscribed(op)
    \/ \E outcome \in WelcomeOutcomes : Subscribed /\ HandleWelcomeStart(outcome)
    \/ \E op \in GroupOpIds : HandleWelcomeJoined(op)
    \/ \E op \in GroupOpIds, ok \in BOOLEAN : HandleWelcomeSaved(op, ok)
    \/ \E memberPubkeys \in MemberLists : AddMembersStart("c1", memberPubkeys)
    \/ \E op \in GroupOpIds : AddMembersLoaded(op)
    \/ \E op \in GroupOpIds, ok \in BOOLEAN : AddMembersDerived(op, ok)
    \/ \E op \in GroupOpIds, resolved \in SUBSET Invitees : AddMembersFetched(op, resolved)
    \/ \E op \in GroupOpIds, ok \in BOOLEAN : AddMembersCommitted(op, ok)
    \/ \E op \in GroupOpIds : AddMembersSaved(op)
    \/ \E op \in GroupOpIds, wrapped \in SUBSET Invitees : \E sent \in SUBSET wrapped : AddMembersWelcomes(op, wrapped, sent)

SpecStartup == LoadInit /\ [][StartupNext]_vars

\* restoreAllMlsStates: the conversations it would load, those flagged hasMlsSession.
SessionBearing(convs) ==
    {c \in DOMAIN convs : convs[c].hasMlsSession = TRUE}

\* C27: once startup has completed, every conversation flagged as having a session
\* whose stored state decodes is in the in-memory session cache.
C27_RestoredAtStartup ==
    Subscribed
    => \A c \in SessionBearing(conversations) :
          loadMlsState(mlsStateStore, c) # Null => c \in DOMAIN mlsStates

\* ---------------------------------------------------------------------------
\* publishEvent: one event is offered to every relay and the outcomes are counted.
\* ---------------------------------------------------------------------------
MaxRelays == 2

RelayUrls == {"wss://r1", "wss://r2", "wss://r3"}

\* getRelays: the relay URLs of the store, or DEFAULT_RELAYS; never empty.
RelayLists ==
    {relays \in UNION {[1..n -> RelayUrls] : n \in 1..MaxRelays} :
        \A i, j \in 1..Len(relays) : relays[i] = relays[j] => i = j}

\* What Promise.allSettled reports for one relay: fulfilled with the relay's OK
\* message, fulfilled with a "connection failure: ..." string, or rejected.
SettledResults ==
    {[status |-> "fulfilled", value |-> ""],
     [status |-> "fulfilled", value |-> "connection failure: timeout"],
     [status |-> "rejected", value |-> "blocked"],
     [status |-> "rejected", value |-> "rate-limited"]}

\* A plausible bug: the resolved value is not inspected.
startsWithNever(value) ==
    FALSE

\* value.startsWith('connection failure:')
startsWithConnectionFailure(value) ==
    value \in {"connection failure: timeout"}

\* The loop over the settled results from index i on: succeeded, failed and
\* rejectionReasons ("<relay>: <reason>" as a pair) after it.
RECURSIVE PublishLoop(_, _, _, _)
PublishLoop(relays, results, i, acc) ==
    IF i > Len(results) THEN acc
    ELSE LET result == results[i]
         IN PublishLoop(relays, results, i + 1,
                IF result.status = "fulfilled" /\ ~startsWithConnectionFailure(result.value)
                THEN [acc EXCEPT !.succeeded = @ + 1]
                ELSE [acc EXCEPT !.failed = @ + 1,
                                 !.rejectionReasons = Append(@, <<relays[i], result.value>>)])

\* publishEvent called: the event is handed to the pool for every relay and
\* Promise.allSettled is awaited.
PublishEventStart(relays) ==
    /\ groupOps = NoObject
    /\ groupOps' = Put(groupOps, NextOp,
            [fn |-> "publishEvent", pc |-> "allSettled", relays |-> relays, results |-> <<>>,
             message |-> Undefined])
    /\ UNCHANGED <<conversations, mlsStates, mlsStateStore, idbQueue, piniaStore, saveTimeout, engineLog, publishLog>>
    /\ GroupFrame

\* Promise.allSettled settles: the outcomes are counted; with no confirmation the
\* call throws 'Event rejected by all N relays: <details>', else it returns.
PublishEventSettled(op, results) ==
    /\ At(op, "publishEvent", "allSettled")
    /\ Len(results) = Len(groupOps[op].relays)
    /\ LET f == groupOps[op]
           counts == PublishLoop(f.relays, results, 1,
                                 [succeeded |-> 0, failed |-> 0, rejectionReasons |-> <<>>])
       IN groupOps' = Put(groupOps, op,
            IF counts.succeeded = 0 /\ Len(f.relays) > 0
            THEN [f EXCEPT !.pc = "thrown", !.results = results,
                           !.message = [rejectedByAll |-> Len(f.relays), details |-> counts.rejectionReasons]]
            ELSE [f EXCEPT !.pc = "returned", !.results = results])
    /\ UNCHANGED <<conversations, mlsStates, mlsStateStore, idbQueue, piniaStore, saveTimeout, engineLog, publishLog>>
    /\ GroupFrame

PublishNext ==
    \/ \E relays \in RelayLists : PublishEventStart(relays)
    \/ \E op \in GroupOpIds, results \in UNION {[1..n -> SettledResults] : n \in 1..MaxRelays} :
          PublishEventSettled(op, results)

SpecPublish == StoreInit /\ [][PublishNext]_vars

\* A relay acknowledged the event: its promise fulfilled with the OK message.
Acknowledged(result) ==
    result.status = "fulfilled" /\ result.value = ""

LogoutFrame ==
    UNCHANGED <<messages, conversations, activeConversationId, mlsStates, mlsStateStore, idbQueue,
                mlsKeyPackageStore, saveTimeout, relayEvents, publishLog, sendOps, recvOps, handled,
                engineLog, now, clock, watched>>

\* disconnect: the auth state and the auth markers are cleared, then
\* clearPersistedState is awaited, which first awaits localforage.keys().
DisconnectStart ==
    /\ MayStart
    /\ ~\E op \in DOMAIN groupOps : groupOps[op].fn = "disconnect"
    /\ groupOps' = Put(groupOps, NextOp, [fn |-> "disconnect", pc |-> "keys", keys |-> {}, error |-> "none"])
    /\ UNCHANGED piniaStore
    /\ LogoutFrame

\* clearPersistedState: keys() settles and removeItem is issued for every key of
\* 'pinia_state'; requests on one object store take effect in issue order.
DisconnectKeys(op) ==
    /\ At(op, "disconnect", "keys")
    /\ groupOps' = Put(groupOps, op, [groupOps[op] EXCEPT !.pc = "removeItem", !.keys = DOMAIN piniaStore])
    /\ piniaStore' = [k \in {} |-> piniaStore[k]]
    /\ LogoutFrame

\* clearPersistedState: the removals settle and disconnect returns.
DisconnectCleared(op) ==
    /\ At(op, "disconnect", "removeItem")
    /\ groupOps' = Put(groupOps, op, [groupOps[op] EXCEPT !.pc = "done"])
    /\ UNCHANGED piniaStore
    /\ LogoutFrame

LogoutNext ==
    \/ \E id \in ConvIds \cup {"null"} : SetActive(id)
    \/ \E storeId \in {"conversations"} : PersistFire(storeId)
    \/ \E c \in ConvIds, pubkey \in AuthPubkeys : LeaveGroup(c, pubkey)
    \/ \E op \in GroupOpIds : LeaveGroupRemoved(op)
    \/ DisconnectStart
    \/ \E op \in GroupOpIds : DisconnectKeys(op)
    \/ \E op \in GroupOpIds : DisconnectCleared(op)

SpecLogout == GroupInit /\ [][LogoutNext]_vars

\* disconnect has completed.
Disconnected ==
    \E op \in DOMAIN groupOps : groupOps[op].fn = "disconnect" /\ groupOps[op].pc = "done"

\* C29: once disconnect has completed, durable storage holds no persisted store
\* state, no MLS state and no KeyPackage private data, now or later.
C29_LogoutClearsAll ==
    Disconnected
    => /\ piniaStore = NoObject
       /\ mlsStateStore = NoObject
       /\ mlsKeyPackageStore = NoObject

\* ---------------------------------------------------------------------------
\* Round trip: own messages come back from the relays while one addMembers call
\* may advance the epoch of the conversation in between.
\* ---------------------------------------------------------------------------

RoundNext ==
    \/ SendStart("c1", "hi")
    \/ \E op \in 1..MaxSends : SendEncryptFails(op)
    \/ \E op \in 1..MaxSends, outcome \in {"acked", "rejected", "lost"} : SendPublish(op, outcome)
    \/ \E op \in 1..MaxSends : SendReturn(op)
    \/ \E e \in relayEvents : HandleGroupEvent("c1", e)
    \/ \E r \in recvOps : HandleGroupEventResume(r)
    \/ groupOps = NoObject /\ AddMembersStart("c1", <<"C">>)
    \/ \E op \in GroupOpIds, resolved \in SUBSET Invitees : AddMembersFetched(op, resolved)
    \/ \E op \in GroupOpIds, ok \in BOOLEAN : AddMembersCommitted(op, ok)
    \/ \E op \in GroupOpIds : AddMembersSaved(op)
    \/ \E op \in GroupOpIds, wrapped \in SUBSET Invitees : \E sent \in SUBSET wrapped : AddMembersWelcomes(op, wrapped, sent)

SpecRound == ChatInit /\ [][RoundNext]_vars

\* The sendMessage call that created an event of this client.
SenderOf(event) ==
    sendOps[event.id.n]

MaxKeyPackages == 2

KindKeyPackage == 443

\* The kind 443 events the identity "C" may have on the relays: each with its
\* creation time, whether its content parses, and whether the parsed KeyPackage
\* has the required Marmot extensions.
PublishedKeyPackages ==
    UNION {[ids -> [created_at : {1, 2}, parses : BOOLEAN, hasRequiredExtensions : BOOLEAN]] :
              ids \in SUBSET (1..MaxKeyPackages)}

KeyPackageEvent(n, e) ==
    [kind |-> KindKeyPackage, id |-> n, pubkey |-> "C", created_at |-> e.created_at,
     parses |-> e.parses, hasRequiredExtensions |-> e.hasRequiredExtensions]

\* querySync returns the events in some order: `order` ranks the event ids.
Orderings == Permutations(1..MaxKeyPackages)

Ordered(events, order) ==
    [p \in 1..Cardinality(events) |->
        CHOOSE e \in events : Cardinality({o \in events : order[o.id] <= order[e.id]}) = p]

\* Array.prototype.sort with (a, b) => key(b) - key(a): stable, newest first.
sortNewestFirst(list, key) ==
    LET n == Len(list)
        pos(i) == 1 + Cardinality({j \in 1..n : (key[j] > key[i]) \/ (key[j] = key[i] /\ j < i)})
    IN [p \in 1..n |-> list[CHOOSE i \in 1..n : pos(i) = p]]

\* fetchKeyPackages: the events that parse become KeyPackageInfo records.
KeyPackageInfo(event) ==
    [pubkey |-> event.pubkey, eventId |-> event.id, createdAt |-> event.created_at,
     hasRequiredExtensions |-> event.hasRequiredExtensions]

KeyPackageInfos(evts) ==
    [i \in 1..Len(SelectSeq(evts, LAMBDA e : e.parses)) |->
        KeyPackageInfo(SelectSeq(evts, LAMBDA e : e.parses)[i])]

\* getBestKeyPackage of the store.
getBestKeyPackage(kps) ==
    IF Len(kps) = 0 THEN Undefined
    ELSE LET filtered == SelectSeq(kps, LAMBDA kp : kp.hasRequiredExtensions)
             valid == sortNewestFirst(filtered, [i \in 1..Len(filtered) |-> filtered[i].createdAt])
         IN IF Len(valid) = 0 THEN Undefined ELSE valid[1]

\* The per-member loop of createGroup and addMembers: the events of the member
\* newest first, the first whose content parses is used.
memberKeyPackage(memberEvents) ==
    IF Len(memberEvents) = 0 THEN Undefined
    ELSE LET sorted == sortNewestFirst(memberEvents,
                                       [i \in 1..Len(memberEvents) |-> memberEvents[i].created_at])
             parsed == SelectSeq(sorted, LAMBDA e : e.parses)
         IN IF Len(parsed) = 0 THEN Undefined
            ELSE [pubkey |-> parsed[1].pubkey, eventId |-> parsed[1].id]

SelectInit ==
    /\ messages = NoObject
    /\ conversations = NoObject
    /\ activeConversationId = "null"
    /\ mlsStates = NoObject
    /\ mlsStateStore = NoObject
    /\ idbQueue = <<>>
    /\ mlsKeyPackageStore = NoObject
    /\ piniaStore = NoObject
    /\ saveTimeout = {}
    /\ \E published \in PublishedKeyPackages :
          relayEvents = {KeyPackageEvent(n, published[n]) : n \in DOMAIN published}
    /\ publishLog = <<>>
    /\ sendOps = NoObject
    /\ recvOps = {}
    /\ handled = {}
    /\ groupOps = NoObject
    /\ engineLog = {}
    /\ now = 100
    /\ clock = 0
    /\ watched = NoObject

\* fetchKeyPackages settles with the events in some order, setKeyPackages stores
\* the parsed ones, and getBestKeyPackage is read.
GetBestKeyPackage(evts) ==
    /\ ~\E op \in DOMAIN groupOps : groupOps[op].fn = "getBestKeyPackage"
    /\ groupOps' = Put(groupOps, NextOp,
            [fn |-> "getBestKeyPackage", pc |-> "returned", events |-> evts,
             eventId |-> IF getBestKeyPackage(KeyPackageInfos(evts)) = Undefined
                         THEN 0 ELSE getBestKeyPackage(KeyPackageInfos(evts)).eventId])
    /\ UNCHANGED <<conversations, mlsStates, mlsStateStore, idbQueue, piniaStore, saveTimeout, engineLog, publishLog>>
    /\ GroupFrame

\* createGroup / addMembers: fetchKeyPackageEvents settles with the events in some
\* order and the loop picks the KeyPackage of the member.
MemberKeyPackage(evts) ==
    /\ ~\E op \in DOMAIN groupOps : groupOps[op].fn = "memberKeyPackage"
    /\ groupOps' = Put(groupOps, NextOp,
            [fn |-> "memberKeyPackage", pc |-> "returned", events |-> evts,
             eventId |-> IF memberKeyPackage(evts) = Undefined THEN 0 ELSE memberKeyPackage(evts).eventId])
    /\ UNCHANGED <<conversations, mlsStates, mlsStateStore, idbQueue, piniaStore, saveTimeout, engineLog, publishLog>>
    /\ GroupFrame

SelectNext ==
    \/ \E order \in Orderings : GetBestKeyPackage(Ordered(relayEvents, order))
    \/ \E order \in Orderings : MemberKeyPackage(Ordered(relayEvents, order))

SpecSelect == SelectInit /\ [][SelectNext]_vars

\* The events that satisfy the required capability flags.
Eligible(events) ==
    {e \in events : e.parses /\ e.hasRequiredExtensions}

\* The choice is the default one: none when no event is eligible, else an eligible
\* event such that no eligible event is newer.
DefaultChoice(events, eventId) ==
    IF Eligible(events) = {}
    THEN eventId = 0
    ELSE \E e \in Eligible(events) :
            /\ e.id = eventId
            /\ \A other \in Eligible(events) : other.created_at <= e.created_at

\* C31: the KeyPackage chosen for an identity, by getBestKeyPackage and by the
\* per-member choice of createGroup and addMembers, is the most recently created
\* one among those with the required capabilities, and none when there is none.
C31_DefaultSelection ==
    \A op \in DOMAIN groupOps : DefaultChoice(relayEvents, groupOps[op].eventId)

\* ---------------------------------------------------------------------------
\* Order of the messages of a conversation.
\* ---------------------------------------------------------------------------

\* Non-decreasing createdAt.
Ascending(list) ==
    \A i, j \in 1..Len(list) : i < j => list[i].createdAt <= list[j].createdAt

\* C32: after any sequence of addMessage, updateMessage and removeMessage calls the
\* messages of a conversation are stored in ascending timestamp order, and
\* getMessages returns them in non-decreasing timestamp order.
C32_KeptSorted ==
    \A c \in ConvIds :
        /\ Ascending(MsgsOf(messages, c))
        /\ Ascending(getMessages(messages, c))

\* ---------------------------------------------------------------------------
\* The debounced save of the persisted-state plugin, with time.
\* ---------------------------------------------------------------------------
MaxClock == 700

DebounceMs == 300

\* The time that passes between two steps.
Delays == {100, 200}

\* The timers a store's watcher has set and not cleared.
TimersOf(w, storeId) == IF storeId \in DOMAIN w THEN w[storeId].timers ELSE {}

\* A watcher that forgets clearTimeout: the earlier timer stays armed.
rearmWithoutClear(w, storeId, t) ==
    Put(w, storeId, [changedAt |-> t, timers |-> TimersOf(w, storeId) \cup {t + DebounceMs}])

\* The watcher callback: if (saveTimeout) clearTimeout(saveTimeout); saveTimeout =
\* setTimeout(..., 300).
rearm(w, storeId, t) ==
    Put(w, storeId, [changedAt |-> t, timers |-> {t + DebounceMs}])

\* The messages handed to the store in the timed runs.
DebounceMsgs ==
    {[id |-> id, conversationId |-> "c1", senderPubkey |-> "B", content |-> "yo", kind |-> KindChat,
      createdAt |-> 100, status |-> "sent"] : id \in MsgIds}

DebounceFrame ==
    UNCHANGED <<mlsStates, mlsStateStore, idbQueue, mlsKeyPackageStore, relayEvents, publishLog, sendOps,
                recvOps, handled, groupOps, engineLog, now>>

\* setActive changes the conversations store and its watcher runs.
WatchedSetActive(id) ==
    /\ id # activeConversationId
    /\ activeConversationId' = id
    /\ conversations' = setActive(conversations, id)
    /\ saveTimeout' = saveTimeout \cup {"conversations"}
    /\ watched' = rearm(watched, "conversations", clock)
    /\ UNCHANGED <<messages, piniaStore, clock>>
    /\ DebounceFrame

\* addMessage changes the messages store and its watcher runs.
WatchedAddMessage(msg) ==
    /\ ~HasId(messages, msg.conversationId, msg.id)
    /\ TotalMessages(addMessage(messages, msg)) <= MaxMsgs
    /\ messages' = addMessage(messages, msg)
    /\ saveTimeout' = saveTimeout \cup {"messages"}
    /\ watched' = rearm(watched, "messages", clock)
    /\ UNCHANGED <<conversations, activeConversationId, piniaStore, clock>>
    /\ DebounceFrame

\* Time passes.
Tick(d) ==
    /\ clock + d <= MaxClock
    /\ clock' = clock + d
    /\ UNCHANGED <<messages, conversations, activeConversationId, piniaStore, saveTimeout, watched>>
    /\ DebounceFrame

\* A timer of a store has run out and its callback runs: the state of the store
\* at that moment is serialized and handed to localforage.setItem.
SaveTimeoutFires(storeId) ==
    /\ storeId \in saveTimeout
    /\ \E due \in TimersOf(watched, storeId) :
          /\ clock >= due
          /\ watched' = Put(watched, storeId, [watched[storeId] EXCEPT !.timers = @ \ {due}])
    /\ piniaStore' = Put(piniaStore, storeId, serializeState(storeId, conversations, activeConversationId, messages))
    /\ saveTimeout' = IF TimersOf(watched', storeId) = {} THEN saveTimeout \ {storeId} ELSE saveTimeout
    /\ UNCHANGED <<messages, conversations, activeConversationId, clock>>
    /\ DebounceFrame

DebounceNext ==
    \/ \E id \in ConvIds \cup {"null"} : WatchedSetActive(id)
    \/ \E msg \in DebounceMsgs : WatchedAddMessage(msg)
    \/ \E d \in Delays : Tick(d)
    \/ \E storeId \in PersistedStores : SaveTimeoutFires(storeId)

SpecDebounce == GroupInit /\ [][DebounceNext]_vars

\* A timer of the store runs out in this step and its write is issued.
WriteIssued(storeId) ==
    /\ TimersOf(watched', storeId) # TimersOf(watched, storeId)
    /\ TimersOf(watched', storeId) \subseteq TimersOf(watched, storeId)

\* C33: a write of a persisted store is issued only when 300 ms have passed since
\* the last change of that store, at most one timer is pending per store, and
\* what is written is the state the store has at that moment.
C33_WritesCoalesced ==
    [][\A storeId \in PersistedStores :
          /\ Cardinality(TimersOf(watched, storeId)) <= 1
          /\ WriteIssued(storeId)
             => /\ clock >= watched[storeId].changedAt + DebounceMs
                /\ piniaStore'[storeId] = serializeState(storeId, conversations', activeConversationId', messages')]_vars

\* C33 happens: the conversations store was changed after the page had loaded, no
\* timer is pending for it, and the saved value is its present state.
C33_Witness ==
    /\ "conversations" \in DOMAIN watched
    /\ watched["conversations"].changedAt > 0
    /\ "conversations" \notin saveTimeout
    /\ activeConversationId = "c1"
    /\ piniaStore["conversations"] = serializeState("conversations", conversations, activeConversationId, messages)

\* ---------------------------------------------------------------------------
\* The unread counter: messages arrive while the user switches conversations.
\* ---------------------------------------------------------------------------
UnreadNext ==
    \/ \E id \in ConvIds \cup {"null"} : SetActive(id)
    \/ \E c \in ConvIds : \E e \in Deliverable(c) : HandleGroupEvent(c, e)
    \/ \E r \in recvOps : HandleGroupEventResume(r)

SpecUnread == ChatInit /\ [][UnreadNext]_vars

\* This step is a setActive call.
Selected == activeConversationId' # activeConversationId

\* This step runs updateLastMessage for conversation c: a suspended
\* handleGroupEvent call for c resumes, or a call for c stores its placeholder
\* without suspending.
LastMessageUpdated(c) ==
    /\ ~Selected
    /\ \/ \E r \in recvOps \ recvOps' : r.conversationId = c
       \/ recvOps' = recvOps /\ ~HasSecret(conversations, c) /\ conversations'[c] # conversations[c]

\* C34: updateLastMessage adds one to the unread counter of its conversation
\* unless it is the active one, setActive sets the counter of the selected
\* conversation to zero, and neither touches the counter of another conversation.
C34_UnreadCounter ==
    [][\A c \in DOMAIN conversations :
          LET before == conversations[c].unreadCount
              after == conversations'[c].unreadCount
          IN  /\ Selected => after = IF c = activeConversationId' THEN 0 ELSE before
              /\ LastMessageUpdated(c) => after = IF c = activeConversationId THEN before ELSE before + 1
              /\ (~Selected /\ ~LastMessageUpdated(c)) => after = before]_vars

\* C34 happens: a message for c2 arrived while it was not open and one for c1
\* while c1 was open.
C34_Witness ==
    /\ activeConversationId = "c1"
    /\ conversations["c1"].lastMessage # Undefined
    /\ conversations["c1"].unreadCount = 0
    /\ "c2" \in DOMAIN conversations
    /\ conversations["c2"].unreadCount = 1

\* ---------------------------------------------------------------------------
\* Session state at rest.
\* ---------------------------------------------------------------------------
\* No call on the conversation is in flight and no request for it is queued.
AtRest(c) ==
    /\ \A op \in DOMAIN groupOps : groupOps[op].conversationId = c => ~InFlight(op)
    /\ \A i \in 1..Len(idbQueue) : idbQueue[i].key # c

\* C35: with no operation on a conversation in flight, a conversation whose
\* handle is in the session cache carries the secret derived from that handle.
C35_HandleSecretSameEpoch ==
    \A c \in DOMAIN conversations \cap DOMAIN mlsStates :
        AtRest(c) => conversations[c].exporterSecret = deriveExporterSecret(mlsStates[c])

\* ---------------------------------------------------------------------------
\* Sending while the membership changes.
\* ---------------------------------------------------------------------------
\* C36: the secret a sendMessage call encrypts under is the one the conversation
\* carries when the call starts to encrypt, and the event the call publishes is
\* encrypted under that secret.
C36_EncryptsUnderCurrentSecret ==
    [][/\ \A op \in DOMAIN sendOps' \ DOMAIN sendOps :
            sendOps'[op].pc = "encrypt"
            => sendOps'[op].secret = conversations[sendOps'[op].conversationId].exporterSecret
       /\ \A op \in DOMAIN sendOps :
            (sendOps[op].pc = "encrypt" /\ sendOps'[op].pc = "publish")
            => /\ publishLog' = Append(publishLog, sendOps'[op].event)
               /\ sendOps'[op].event.content.key = sendOps[op].secret]_vars

\* C36 happens: a membership change installed the secret of a new epoch and a
\* message sent after it was published under that secret.
C36_Witness ==
    \E i \in 1..Len(publishLog) :
        /\ publishLog[i].kind = KindGroupEvent
        /\ publishLog[i].content.key # deriveExporterSecret(CurrentState)
        /\ publishLog[i].content.key = conversations["c1"].exporterSecret

\* ---------------------------------------------------------------------------
\* Leaving a group while a membership change is under way.
\* ---------------------------------------------------------------------------
DepartNext ==
    \/ \E pubkey \in AuthPubkeys : LeaveGroup("c1", pubkey)
    \/ \E op \in GroupOpIds : LeaveGroupRemoved(op)
    \/ \E memberPubkeys \in MemberLists : AddMembersStart("c1", memberPubkeys)
    \/ \E op \in GroupOpIds : AddMembersLoaded(op)
    \/ \E op \in GroupOpIds, ok \in BOOLEAN : AddMembersDerived(op, ok)
    \/ \E op \in GroupOpIds, resolved \in SUBSET Invitees : AddMembersFetched(op, resolved)
    \/ \E op \in GroupOpIds, ok \in BOOLEAN : AddMembersCommitted(op, ok)
    \/ \E op \in GroupOpIds : AddMembersSaved(op)
    \/ \E op \in GroupOpIds, wrapped \in SUBSET Invitees : \E sent \in SUBSET wrapped : AddMembersWelcomes(op, wrapped, sent)

SpecDepart == GroupInit /\ [][DepartNext]_vars

\* leaveGroup has removed the conversation.
Left(c) ==
    \E op \in DOMAIN groupOps :
        /\ groupOps[op].fn = "leaveGroup"
        /\ groupOps[op].conversationId = c
        /\ groupOps[op].pc = "done"

\* C37: once leaveGroup has removed a conversation and no operation on it is in
\* flight any more, neither the session cache nor the durable session store holds
\* state for it.
C37_LeavingIsFinal ==
    \A c \in ConvIds :
        (Left(c) /\ AtRest(c)) => (c \notin DOMAIN mlsStates /\ c \notin DOMAIN mlsStateStore)

\* C38: with no operation on a conversation in flight, the durable session store
\* holds the encoding of the handle that the session cache holds for it.
C38_CacheAndStoreAgree ==
    \A c \in DOMAIN mlsStates :
        AtRest(c) => (c \in DOMAIN mlsStateStore /\ mlsStateStore[c] = encodeState(mlsStates[c]))

\* C39: when the addMembers calls on a conversation have completed, its member
\* list holds every member each call found at its start and every identity a
\* call reported as added.
C39_NoMemberUpdateLost ==
    \A c \in DOMAIN conversations :
        AtRest(c) =>
            \A op \in DOMAIN groupOps :
                (groupOps[op].fn = "addMembers" /\ groupOps[op].conversationId = c /\ groupOps[op].pc = "done")
                => (SeqToSet(groupOps[op].members) \cup SeqToSet(groupOps[op].added))
                       \subseteq SeqToSet(conversations[c].members)

\* ---------------------------------------------------------------------------
\* Repeated delivery of a group event.
\* ---------------------------------------------------------------------------
\* This step delivers, or finishes the delivery of, an event that a
\* handleGroupEvent call for the same conversation has handled before.
Redelivered ==
    /\ handled' = handled
    /\ activeConversationId' = activeConversationId

\* C40: delivering an event to handleGroupEvent again leaves the messages, the
\* last-message preview and the unread counter of every conversation as they were.
C40_DuplicateDeliveryHarmless ==
    [][Redelivered =>
          \A c \in DOMAIN conversations :
              /\ MsgsOf(messages', c) = MsgsOf(messages, c)
              /\ conversations'[c].lastMessage = conversations[c].lastMessage
              /\ conversations'[c].unreadCount = conversations[c].unreadCount]_vars

====
